---- MODULE Spec2Model ----
(***************************************************************************)
(* Port polling engine of the Modbus gateway (src/src/port_manager.py):    *)
(* PortManager with one runner task per enabled port (poll_port), the      *)
(* device poll (poll_device), the shared write buffer guarded by one       *)
(* asyncio.Lock (add_to_buffer / flush_buffer / buffer_flush_task), the    *)
(* per-port statistics (PortStatistics) and the control entry points       *)
(* write_register and get_port_status.                                     *)
(*                                                                         *)
(* asyncio runs one coroutine at a time, so every action below is the code *)
(* executed between two suspension points (await) of one task.             *)
(***************************************************************************)
EXTENDS Integers, Sequences, FiniteSets, TLC

(***************************************************************************)
(* Bounds of the model.                                                    *)
(***************************************************************************)
\* device polls the runners start, all ports together, before the model
\* stops following them
MaxPolls == 3

(***************************************************************************)
(* Configuration (models.PortConfig / DeviceConfig / RegisterConfig).      *)
(* Times are in milliseconds.                                              *)
(***************************************************************************)
Reg(t, a, dt) == [type |-> t, address |-> a, data_type |-> dt]

Dev(n, en, pi, regs) ==
    [name |-> n, enabled |-> en, poll_interval |-> pi, registers |-> regs]

PortConfigs ==
    [A |-> [name |-> "A", enabled |-> TRUE, max_retries |-> 2,
            devices |-> << Dev("d1", TRUE, 1000,
                               << Reg("holding", 10, "uint16"),
                                  Reg("holding", 20, "int16"),
                                  Reg("input", 5, "uint16") >>),
                           Dev("d2", FALSE, 1000,
                               << Reg("holding", 1, "uint16") >>),
                           Dev("d3", TRUE, 500,
                               << Reg("holding", 30, "uint16") >>) >>],
     B |-> [name |-> "B", enabled |-> TRUE, max_retries |-> 1,
            devices |-> << Dev("e1", TRUE, 20,
                               << Reg("coil", 0, "bool") >>) >>],
     C |-> [name |-> "C", enabled |-> FALSE, max_retries |-> 3,
            devices |-> << Dev("f1", TRUE, 1000,
                               << Reg("holding", 0, "uint16") >>) >>],
     D |-> [name |-> "D", enabled |-> TRUE, max_retries |-> 1,
            devices |-> << Dev("g1", FALSE, 1000,
                               << Reg("holding", 0, "uint16") >>) >>]]

\* the ports of the configuration the engine is given (set_port_configs)
Ports == {"A", "B", "C"}

\* a second configuration: port A next to a port whose only device is
\* disabled
RetryPorts == {"A", "D"}

\* the PollingConfig handed to PortManager.__init__ (default buffer_size 1000)
PollingConfig == [buffer_size |-> 2]

\* self.buffer_size = config.buffer_size
buffer_size == PollingConfig.buffer_size

Devices(p) == PortConfigs[p].devices

\* the device names poll_port of port p calls record_poll with
DeviceNames(p) == {Devices(p)[i].name : i \in DOMAIN Devices(p)}

Range(s) == {s[i] : i \in DOMAIN s}

(***************************************************************************)
(* Block planning: group_registers_by_type and group_registers_into_blocks *)
(***************************************************************************)
\* The loops over a register list are folded by halves: the loop body is
\* applied to the indices lo..hi in ascending order, as the code's for
\* loop applies it.  The value the first half leaves (half) is bound
\* before the second half starts, so a run of more than a hundred
\* registers does not nest one pending evaluation per register.

\* group_registers_by_type, body of the loop: a kind not seen yet is
\* appended to the keys of grouped
KindStep(kinds, r) ==
    IF r.type \in Range(kinds) THEN kinds ELSE Append(kinds, r.type)

RECURSIVE KindLoop(_, _, _, _)
KindLoop(registers, lo, hi, kinds) ==
    IF lo > hi THEN kinds
    ELSE IF lo = hi THEN KindStep(kinds, registers[lo])
    ELSE LET mid == (lo + hi) \div 2
         IN CHOOSE out \in {KindLoop(registers, mid + 1, hi, half) :
                                half \in {KindLoop(registers, lo, mid, kinds)}} : TRUE

\* keys of the dict built by group_registers_by_type, in insertion order
KindOrder(registers) == KindLoop(registers, 1, Len(registers), << >>)

\* grouped[reg_type]: the registers of one kind, in declaration order
RegsOfKind(registers, k) == SelectSeq(registers, LAMBDA r : r.type = k)

\* sorted(registers, key=address) is stable: a register goes behind the
\* registers of the sorted prefix whose address is not above its own
InsertByAddress(s, r) ==
    LET k == Cardinality({j \in DOMAIN s : s[j].address <= r.address})
    IN SubSeq(s, 1, k) \o << r >> \o SubSeq(s, k + 1, Len(s))

RECURSIVE SortLoop(_, _, _, _)
SortLoop(registers, lo, hi, sorted) ==
    IF lo > hi THEN sorted
    ELSE IF lo = hi THEN InsertByAddress(sorted, registers[lo])
    ELSE LET mid == (lo + hi) \div 2
         IN CHOOSE out \in {SortLoop(registers, mid + 1, hi, half) :
                                half \in {SortLoop(registers, lo, mid, sorted)}} : TRUE

SortByAddress(registers) == SortLoop(registers, 1, Len(registers), << >>)

\* a loop body that never extends a block: one block per register
BlockStepNoMerge(sorted_regs, i, w) ==
    [start_addr |-> sorted_regs[i].address, count |-> 1,
     blocks |-> Append(w.blocks, << w.start_addr, w.count >>)]

\* group_registers_into_blocks, body of the loop over range(1, len): w
\* holds start_addr, count and blocks
BlockStep(sorted_regs, i, w) ==
    IF sorted_regs[i].address = sorted_regs[i - 1].address + 1
    THEN [w EXCEPT !.count = @ + 1]
    ELSE [start_addr |-> sorted_regs[i].address, count |-> 1,
          blocks |-> Append(w.blocks, << w.start_addr, w.count >>)]

RECURSIVE WalkBlocks(_, _, _, _)
WalkBlocks(sorted_regs, lo, hi, w) ==
    IF lo > hi THEN w
    ELSE IF lo = hi THEN BlockStep(sorted_regs, lo, w)
    ELSE LET mid == (lo + hi) \div 2
         IN CHOOSE out \in {WalkBlocks(sorted_regs, mid + 1, hi, half) :
                                half \in {WalkBlocks(sorted_regs, lo, mid, w)}} : TRUE

group_registers_into_blocks(registers) ==
    IF registers = << >> THEN << >>
    ELSE LET sorted_regs == SortByAddress(registers)
             w == WalkBlocks(sorted_regs, 2, Len(sorted_regs),
                             [start_addr |-> sorted_regs[1].address,
                              count |-> 1, blocks |-> << >>])
         IN Append(w.blocks, << w.start_addr, w.count >>)

\* The reads poll_device plans for one device: per kind (outer loop) the
\* blocks of that kind (inner loop).
Plan(device) ==
    LET kinds == KindOrder(device.registers)
    IN [k \in DOMAIN kinds |->
           [reg_type |-> kinds[k],
            reg_list |-> RegsOfKind(device.registers, kinds[k]),
            blocks   |-> group_registers_into_blocks(
                             RegsOfKind(device.registers, kinds[k]))]]

\* every (kind index, block index) the plan of a device holds
PlannedBlocks(device) ==
    LET plan == Plan(device)
    IN UNION {{<< k, b >> : b \in DOMAIN plan[k].blocks} : k \in DOMAIN plan}

(***************************************************************************)
(* process_register_block: walks the values of a response and stores one   *)
(* entry per configured register.  A register of a 32-bit type makes       *)
(* RegisterData(raw_value=<list>) fail validation (raw_value: int), which  *)
(* leaves the function by an exception with the entries stored so far.     *)
(***************************************************************************)
Is32(dt) == dt \in {"int32", "uint32", "float"}

\* reg_dict = {reg.address: reg for reg in registers}: the last one wins
RegAt(registers, addr) ==
    LET idx == {i \in DOMAIN registers : registers[i].address = addr}
    IN registers[CHOOSE i \in idx : \A j \in idx : j <= i]

HasRegAt(registers, addr) ==
    \E i \in DOMAIN registers : registers[i].address = addr

RECURSIVE ProcessWalk(_, _, _, _, _, _)
ProcessWalk(reg_type, start_addr, nvalues, registers, i, keys) ==
    IF i >= nvalues THEN [keys |-> keys, raised |-> FALSE]
    ELSE IF HasRegAt(registers, start_addr + i)
         THEN LET reg_info == RegAt(registers, start_addr + i)
                  register_count == IF Is32(reg_info.data_type) THEN 2 ELSE 1
              IN IF i + register_count > nvalues
                 THEN [keys |-> keys, raised |-> FALSE]
                 ELSE IF register_count = 2
                      THEN [keys |-> keys, raised |-> TRUE]
                      ELSE ProcessWalk(reg_type, start_addr, nvalues, registers,
                                       i + register_count,
                                       keys \cup {<< reg_type, start_addr + i >>})
         ELSE ProcessWalk(reg_type, start_addr, nvalues, registers, i + 1, keys)

process_register_block(reg_type, start_addr, nvalues, registers) ==
    ProcessWalk(reg_type, start_addr, nvalues, registers, 0, {})

(***************************************************************************)
(* State.                                                                  *)
(***************************************************************************)
VARIABLES
    running,        \* PortManager.running
    port_clients,   \* keys of PortManager.port_clients
    runner,         \* the poll_port task of each port: position and locals
    port_stats,     \* PortManager.port_stats: one PortStatistics per port
    data_buffer,    \* PortManager.data_buffer
    lock,           \* holder of PortManager.lock, or "free"
    flusher,        \* the buffer_flush_task: position and buffer_to_save
    fresh_flush,    \* last_flush was set after the flusher's sleep began
    saved,          \* samples handed to database.save_device_data
    writer,         \* the control plane's write_register call
    obs,            \* observations of each runner (history, not program state)
    call,           \* the call a function specification examines, and its result
    handed,         \* the snapshots handed to save_device_data, as SampleIds (history)
    stopper,        \* PortManager.stop as main.run calls it: position, tasks_to_cancel
    wsm             \* the WebSocketManager: its two indexes, its queues, its broadcasts

vars == << running, port_clients, runner, port_stats, data_buffer,
           lock, flusher, fresh_flush, saved, writer, obs, call, handed,
           stopper, wsm >>

\* the None poll_device returns, and an unset device_data
None == [status |-> "none"]

\* no function is under examination: the engine never touches call
NoCall == [op |-> "none"]

\* a dict without keys
EmptyDict == [k \in {} |-> {}]

\* WebSocketManager.__init__: no subscription, no queue; broadcasts keeps
\* what broadcast_device_data was called with (history)
NewWebSocketManager ==
    [device_subscriptions |-> EmptyDict, websocket_subscriptions |-> EmptyDict,
     message_queues |-> EmptyDict, broadcasts |-> {}]

\* stop() has not been called
NoStop == [pc |-> "none", tasks_to_cancel |-> {}, buffer_to_save |-> << >>]

(***************************************************************************)
(* PortStatistics                                                          *)
(***************************************************************************)
NewDeviceStat == [total_polls |-> 0, successful_polls |-> 0, failed_polls |-> 0]

\* PortStatistics.__init__; device_stats is a defaultdict, an absent entry
\* reads as NewDeviceStat; response_times is kept by its length
NewPortStatistics(p) ==
    [total_polls |-> 0, successful_polls |-> 0, failed_polls |-> 0,
     error_count |-> 0, connected_devices |-> {}, response_times |-> 0,
     device_stats |-> [d \in DeviceNames(p) |-> NewDeviceStat]]

Min(a, b) == IF a <= b THEN a ELSE b

\* a record_poll that takes any answered poll, failed or not, as a sign
\* of a connected device
record_poll_connect_any(st, device_name, success, has_time) ==
    LET ds == st.device_stats[device_name]
        counted ==
            IF device_name = "" THEN st
            ELSE IF success
            THEN [st EXCEPT !.successful_polls = @ + 1,
                            !.connected_devices = @ \cup {device_name},
                            !.device_stats[device_name] =
                                [ds EXCEPT !.total_polls = @ + 1,
                                           !.successful_polls = @ + 1]]
            ELSE [st EXCEPT !.failed_polls = @ + 1,
                            !.error_count = @ + 1,
                            !.connected_devices = @ \cup {device_name},
                            !.device_stats[device_name] =
                                [ds EXCEPT !.total_polls = @ + 1,
                                           !.failed_polls = @ + 1]]
    IN [counted EXCEPT !.total_polls = @ + 1,
                       !.response_times =
                           IF has_time THEN Min(@ + 1, 100) ELSE @]

\* PortStatistics.record_poll; has_time is response_time > 0
record_poll(st, device_name, success, has_time) ==
    LET ds == st.device_stats[device_name]
        counted ==
            IF device_name = "" THEN st
            ELSE IF success
            THEN [st EXCEPT !.successful_polls = @ + 1,
                            !.connected_devices = @ \cup {device_name},
                            !.device_stats[device_name] =
                                [ds EXCEPT !.total_polls = @ + 1,
                                           !.successful_polls = @ + 1]]
            ELSE [st EXCEPT !.failed_polls = @ + 1,
                            !.error_count = @ + 1,
                            !.device_stats[device_name] =
                                [ds EXCEPT !.total_polls = @ + 1,
                                           !.failed_polls = @ + 1]]
    IN [counted EXCEPT !.total_polls = @ + 1,
                       !.response_times =
                           IF has_time THEN Min(@ + 1, 100) ELSE @]

\* a get_port_status that calls a port in error from half of its successful
\* polls on, not above half
get_port_status_at_half(stats, port_name) ==
    IF port_name \notin DOMAIN stats THEN "unknown"
    ELSE LET st == stats[port_name]
         IN IF st.error_count > 10 /\ st.successful_polls = 0 THEN "error"
            ELSE IF 2 * st.error_count >= st.successful_polls THEN "error"
            ELSE IF Cardinality(st.connected_devices) = 0 THEN "disconnected"
            ELSE "running"

\* the "status" entry of PortManager.get_port_status
get_port_status(stats, port_name) ==
    IF port_name \notin DOMAIN stats THEN "unknown"
    ELSE LET st == stats[port_name]
         IN IF st.error_count > 10 /\ st.successful_polls = 0 THEN "error"
            ELSE IF 2 * st.error_count > st.successful_polls THEN "error"
            ELSE IF Cardinality(st.connected_devices) = 0 THEN "disconnected"
            ELSE "running"

(***************************************************************************)
(* poll_device: the value returned once the block loops are over           *)
(***************************************************************************)
\* timestamp is datetime.now() read on a clock that ticks once per poll of
\* the port: the number of the poll that captured the sample
DeviceData(p, device, registers_data, timestamp) ==
    [device_name |-> device.name, port_name |-> p, timestamp |-> timestamp,
     registers |-> registers_data, status |-> "online"]

poll_device_result(p, device, registers_data, timestamp) ==
    IF registers_data = {} THEN None
    ELSE DeviceData(p, device, registers_data, timestamp)

\* number of values a successful response to a read of count carries:
\* registers one per address, bits padded to whole bytes
ResponseLen(reg_type, count) ==
    IF reg_type \in {"holding", "input"} THEN count
    ELSE 8 * ((count + 7) \div 8)

\* the outcomes of one awaited read_register_block
ReadOutcomes == {"ok", "error_response", "exception", "timeout"}

\* a poll_device that forgets what it decoded once a block read fails
AfterReadDropOnFailure(device, k, b, outcome, registers_data) ==
    LET g == Plan(device)[k]
        blk == g.blocks[b]
    IN IF outcome = "ok"
       THEN registers_data \cup
            process_register_block(g.reg_type, blk[1],
                                   ResponseLen(g.reg_type, blk[2]),
                                   g.reg_list).keys
       ELSE {}

\* registers_data after the read of block b of kind k returned with outcome
AfterRead(device, k, b, outcome, registers_data) ==
    LET g == Plan(device)[k]
        blk == g.blocks[b]
    IN IF outcome = "ok"
       THEN registers_data \cup
            process_register_block(g.reg_type, blk[1],
                                   ResponseLen(g.reg_type, blk[2]),
                                   g.reg_list).keys
       ELSE registers_data

\* the block read after block b of kind k returned with outcome: the next
\* block of the kind, or after a timeout (break) and after the last block
\* the first block of the next kind; << 0, 0 >> when the loops are over
NextBlock(device, k, b, outcome) ==
    LET plan == Plan(device)
    IN IF outcome # "timeout" /\ b < Len(plan[k].blocks) THEN << k, b + 1 >>
       ELSE IF k < Len(plan) THEN << k + 1, 1 >>
       ELSE << 0, 0 >>

\* a device loop without the "if not device_config.enabled: continue"
NextEnabledNoSkip(devices, i) == IF i \in DOMAIN devices THEN i ELSE 0

\* for device_config in port_config.devices: the first enabled device at
\* index i or later, 0 when there is none
NextEnabled(devices, i) ==
    LET js == {j \in DOMAIN devices : j >= i /\ devices[j].enabled}
    IN IF js = {} THEN 0 ELSE CHOOSE j \in js : \A x \in js : j <= x

(***************************************************************************)
(* poll_port: the code of one runner between two awaits.  Each operator    *)
(* yields the runner's next position and locals (r), its observations (ob) *)
(* and the keys of port_clients (clients).  ctx carries port_clients as    *)
(* the code run so far in the same step left it, and conn, the value       *)
(* client_instance.connected has when the loop head reads it: the client   *)
(* is the library's, its transport may have gone down at any time.         *)
(***************************************************************************)
Runner(pc, rc, dev, kind, blk, data, dd) ==
    [pc |-> pc, retry_count |-> rc, dev |-> dev, kind |-> kind, blk |-> blk,
     registers_data |-> data, device_data |-> dd]

Idle(pc, rc) == Runner(pc, rc, 0, 0, 0, {}, None)

NewObs ==
    [attempts |-> 0, backoffs |-> 0, ever_connected |-> FALSE, polls |-> 0,
     cycle |-> << >>, ok |-> {}, failed |-> {}]

\* await self.poll_device(...) up to its first read; a device without
\* registers plans no read and returns None at once
StartPoll(p, j, rc, ob, ctx) ==
    LET ob1 == [ob EXCEPT !.polls = @ + 1, !.cycle = Append(@, j),
                          !.ok = {}, !.failed = {}]
    IN [r |-> IF Len(Plan(Devices(p)[j])) = 0
              THEN Runner("gap", rc, j, 0, 0, {}, None)
              ELSE Runner("read", rc, j, 1, 1, {}, None),
        ob |-> ob1, clients |-> ctx.clients]

RECURSIVE LoopHead(_, _, _, _)
RECURSIVE EndCycle(_, _, _, _)

\* the except branches of the while body: retry_count += 1, then the
\* retry_delay sleep unless the retries are used up
Failure(p, rc, ob, ctx) ==
    IF rc + 1 < PortConfigs[p].max_retries
    THEN [r |-> Idle("backoff", rc + 1),
          ob |-> [ob EXCEPT !.backoffs = @ + 1], clients |-> ctx.clients]
    ELSE LoopHead(p, rc + 1, ob, ctx)

\* the for loop over port_config.devices from index i on
ScanFrom(p, i, rc, ob, ctx) ==
    LET j == IF running THEN NextEnabled(Devices(p), i) ELSE 0
    IN IF j = 0 THEN EndCycle(p, rc, ob, ctx)
       ELSE StartPoll(p, j, rc, ob, ctx)

\* poll_cycle_count += 1 (it only paces a log line) and
\* adjust_polling_interval; min() of no enabled device raises ValueError
EndCycle(p, rc, ob, ctx) ==
    LET devs == Devices(p)
        en == {j \in DOMAIN devs : devs[j].enabled}
        min_interval ==
            devs[CHOOSE j \in en :
                    \A x \in en : devs[j].poll_interval <= devs[x].poll_interval
                ].poll_interval
        cycle_time == Len(devs) * 50
    IN IF devs = << >> THEN LoopHead(p, rc, ob, ctx)
       ELSE IF en = {} THEN Failure(p, rc, ob, ctx)
       ELSE IF cycle_time < min_interval
       THEN [r |-> Idle("interval", rc), ob |-> ob, clients |-> ctx.clients]
       ELSE LoopHead(p, rc, ob, ctx)

\* a wrapper that also re-runs a function that has returned
async_retry_any_end(max_retries, exceptions, attempt, ended) ==
    IF attempt < max_retries - 1 THEN "rerun"
    ELSE IF ended = "return" THEN "return" ELSE "raise"

\* the wrapper of utils.async_retry after the attempt-th call of the wrapped
\* function has ended (with "return" or with the name of an exception): it
\* returns what the function returned, re-runs it after an exception of
\* `exceptions` while attempts are left, and lets any other exception through
async_retry(max_retries, exceptions, attempt, ended) ==
    IF ended = "return" THEN "return"
    ELSE IF ended \in exceptions /\ attempt < max_retries - 1 THEN "rerun"
    ELSE "raise"

\* while self.running and retry_count < max_retries: ... ; after the loop
\* the client is popped from port_clients and closed and poll_port returns
\* to its wrapper @async_retry(max_retries=3, exceptions=(ConnectionException,)),
\* in its first call of poll_port
LoopHead(p, rc, ob, ctx) ==
    IF ~(running /\ rc < PortConfigs[p].max_retries)
    THEN IF async_retry(3, {"ConnectionException"}, 0, "return") = "rerun"
         THEN [r |-> Idle("start", 0), ob |-> ob, clients |-> ctx.clients \ {p}]
         ELSE [r |-> Idle("done", rc), ob |-> ob, clients |-> ctx.clients \ {p}]
    ELSE IF p \notin ctx.clients \/ ~ctx.conn
    THEN [r |-> Idle("connect", rc),
          ob |-> [ob EXCEPT !.attempts = @ + 1], clients |-> ctx.clients]
    ELSE ScanFrom(p, 1, 0, [ob EXCEPT !.cycle = << >>], ctx)

Ctx(conn) == [clients |-> port_clients, conn |-> conn]

\* device polls started so far, all ports together
RECURSIVE SumPolls(_, _)
SumPolls(o, S) ==
    IF S = {} THEN 0
    ELSE LET p == CHOOSE x \in S : TRUE
         IN o[p].polls + SumPolls(o, S \ {p})

TotalPolls(o) == SumPolls(o, DOMAIN o)

Apply(p, res) ==
    /\ runner' = [runner EXCEPT ![p] = res.r]
    /\ obs' = [obs EXCEPT ![p] = res.ob]
    /\ port_clients' = res.clients
    /\ TotalPolls(obs') <= MaxPolls

(***************************************************************************)
(* Init: PortManager.__init__ followed by set_port_configs.                *)
(***************************************************************************)
Init ==
    /\ running = FALSE
    /\ port_clients = {}
    /\ runner = [p \in Ports |-> Idle("none", 0)]
    /\ port_stats = [p \in Ports |-> NewPortStatistics(p)]
    /\ data_buffer = << >>
    /\ lock = "free"
    /\ flusher = [pc |-> "none", buffer_to_save |-> << >>]
    /\ fresh_flush = FALSE
    /\ saved = 0
    /\ writer = [state |-> "idle", port |-> "", result |-> "none"]
    /\ obs = [p \in Ports |-> NewObs]
    /\ call = NoCall
    /\ handed = << >>
    /\ stopper = NoStop
    /\ wsm = NewWebSocketManager

\* a start() that creates a poll_port task for every port, enabled or not
StartEveryPort ==
    /\ ~running
    /\ flusher.pc = "none"
    /\ stopper.pc = "none"
    /\ running' = TRUE
    /\ flusher' = [flusher EXCEPT !.pc = "sleep"]
    /\ runner' = [p \in DOMAIN runner |-> Idle("start", 0)]
    /\ UNCHANGED << port_clients, port_stats, data_buffer, lock,
                    fresh_flush, saved, writer, obs, call, wsm, handed,
                    stopper >>

\* PortManager.start: the flush task and one poll_port task per enabled port
Start ==
    /\ ~running
    /\ flusher.pc = "none"
    /\ stopper.pc = "none"
    /\ running' = TRUE
    /\ flusher' = [flusher EXCEPT !.pc = "sleep"]
    /\ runner' = [p \in DOMAIN runner |->
                     IF PortConfigs[p].enabled THEN Idle("start", 0)
                     ELSE runner[p]]
    /\ UNCHANGED << port_clients, port_stats, data_buffer, lock,
                    fresh_flush, saved, writer, obs, call, wsm, handed,
                    stopper >>

(***************************************************************************)
(* The runner of port p.                                                   *)
(***************************************************************************)
\* first step of the task: retry_count = 0 and the loop head
RunnerStart(p) ==
    /\ runner[p].pc = "start"
    /\ p \notin stopper.tasks_to_cancel
    /\ Apply(p, LoopHead(p, 0, obs[p], Ctx(FALSE)))
    /\ UNCHANGED << running, port_stats, data_buffer, lock, flusher,
                    fresh_flush, saved, writer, call, wsm, handed,
                    stopper >>

\* create_modbus_client / client.connect() returned: a client (ok) or not
ConnectDone(p) ==
    /\ runner[p].pc = "connect"
    /\ p \notin stopper.tasks_to_cancel
    /\ \E ok \in BOOLEAN :
          IF ok
          THEN Apply(p,
                     ScanFrom(p, 1, 0,
                              [obs[p] EXCEPT !.ever_connected = TRUE,
                                             !.attempts = 0, !.backoffs = 0,
                                             !.cycle = << >>],
                              [clients |-> port_clients \cup {p}, conn |-> TRUE]))
          ELSE Apply(p, Failure(p, runner[p].retry_count, obs[p], Ctx(FALSE)))
    /\ UNCHANGED << running, port_stats, data_buffer, lock, flusher,
                    fresh_flush, saved, writer, call, wsm, handed,
                    stopper >>

\* asyncio.sleep(retry_delay) is over
BackoffDone(p) ==
    /\ runner[p].pc = "backoff"
    /\ p \notin stopper.tasks_to_cancel
    /\ \E conn \in BOOLEAN :
          Apply(p, LoopHead(p, runner[p].retry_count, obs[p], Ctx(conn)))
    /\ UNCHANGED << running, port_stats, data_buffer, lock, flusher,
                    fresh_flush, saved, writer, call, wsm, handed,
                    stopper >>

\* notify_websocket_subscribers: its body is `pass`, the WebSocketManager
\* is not called
notify_websocket_subscribers(m, device_data) == m

\* an add_to_buffer that never flushes at buffer_size
AddToBufferNoFlush(p, r) ==
    /\ data_buffer' = Append(data_buffer, r.device_data)
    /\ lock' = "free"
    /\ runner' = [runner EXCEPT ![p] = [r EXCEPT !.pc = "gap"]]
    /\ port_stats' =
           [port_stats EXCEPT ![p] =
               record_poll(@, Devices(p)[r.dev].name, TRUE, TRUE)]
    /\ wsm' = notify_websocket_subscribers(wsm, r.device_data)

\* an add_to_buffer whose record_poll counts the poll on every port
AddToBufferSharedStats(p, r) ==
    LET buf == Append(data_buffer, r.device_data)
    IN /\ data_buffer' = buf
       /\ IF Len(buf) >= buffer_size
          THEN /\ lock' = p
               /\ runner' = [runner EXCEPT ![p] = [r EXCEPT !.pc = "flush_wait"]]
               /\ UNCHANGED << port_stats, wsm >>
          ELSE /\ lock' = "free"
               /\ runner' = [runner EXCEPT ![p] = [r EXCEPT !.pc = "gap"]]
               /\ port_stats' =
                      [q \in Ports |->
                          [port_stats[q] EXCEPT !.total_polls = @ + 1]]
               /\ wsm' = notify_websocket_subscribers(wsm, r.device_data)

\* add_to_buffer once self.lock is taken, and what follows it in poll_port:
\* the append; at buffer_size the call of flush_buffer, which awaits the
\* lock this task holds (asyncio.Lock is not reentrant); otherwise
\* record_poll, the (empty) notification and the sleep between devices.
\* self.lock is held across an await only there, and that holder never
\* releases it while the engine runs: a task that finds the lock taken
\* ("lock_wait") is not woken again.
AddToBuffer(p, r) ==
    LET buf == Append(data_buffer, r.device_data)
    IN /\ data_buffer' = buf
       /\ IF Len(buf) >= buffer_size
          THEN /\ lock' = p
               /\ runner' = [runner EXCEPT ![p] = [r EXCEPT !.pc = "flush_wait"]]
               /\ UNCHANGED << port_stats, wsm >>
          ELSE /\ lock' = "free"
               /\ runner' = [runner EXCEPT ![p] = [r EXCEPT !.pc = "gap"]]
               /\ port_stats' =
                      [port_stats EXCEPT ![p] =
                          record_poll(@, Devices(p)[r.dev].name, TRUE, TRUE)]
               /\ wsm' = notify_websocket_subscribers(wsm, r.device_data)

\* read_register_block returned: the rest of poll_device up to the next
\* read, or poll_device's return and poll_port up to its next await
ReadDone(p) ==
    /\ runner[p].pc = "read"
    /\ p \notin stopper.tasks_to_cancel
    /\ \E outcome \in ReadOutcomes :
          LET r == runner[p]
              device == Devices(p)[r.dev]
              data == AfterRead(device, r.kind, r.blk, outcome, r.registers_data)
              nb == NextBlock(device, r.kind, r.blk, outcome)
              ob == IF outcome = "ok"
                    THEN [obs[p] EXCEPT !.ok = @ \cup {<< r.kind, r.blk >>}]
                    ELSE [obs[p] EXCEPT !.failed = @ \cup {<< r.kind, r.blk >>}]
              dd == poll_device_result(p, device, data, obs[p].polls)
              fin == [r EXCEPT !.kind = 0, !.blk = 0, !.registers_data = {},
                               !.device_data = dd]
          IN /\ obs' = [obs EXCEPT ![p] = ob]
             /\ IF nb # << 0, 0 >>
                THEN /\ runner' = [runner EXCEPT ![p] =
                                      [r EXCEPT !.kind = nb[1], !.blk = nb[2],
                                                !.registers_data = data]]
                     /\ UNCHANGED << port_stats, data_buffer, lock, wsm >>
                ELSE IF dd = None
                THEN /\ runner' = [runner EXCEPT ![p] = [fin EXCEPT !.pc = "gap"]]
                     /\ UNCHANGED << port_stats, data_buffer, lock, wsm >>
                ELSE IF lock = "free"
                THEN AddToBuffer(p, fin)
                ELSE /\ runner' = [runner EXCEPT ![p] =
                                      [fin EXCEPT !.pc = "lock_wait"]]
                     /\ UNCHANGED << port_stats, data_buffer, lock, wsm >>
    /\ UNCHANGED << running, port_clients, flusher, fresh_flush,
                    saved, writer, call, handed,
                    stopper >>

\* asyncio.sleep(0.01) after a device is over: on with the for loop
GapDone(p) ==
    /\ runner[p].pc = "gap"
    /\ p \notin stopper.tasks_to_cancel
    /\ \E conn \in BOOLEAN :
          Apply(p, ScanFrom(p, runner[p].dev + 1, runner[p].retry_count, obs[p],
                            Ctx(conn)))
    /\ UNCHANGED << running, port_stats, data_buffer, lock, flusher,
                    fresh_flush, saved, writer, call, wsm, handed,
                    stopper >>

\* the sleep of adjust_polling_interval is over: back to the loop head
IntervalDone(p) ==
    /\ runner[p].pc = "interval"
    /\ p \notin stopper.tasks_to_cancel
    /\ \E conn \in BOOLEAN :
          Apply(p, LoopHead(p, runner[p].retry_count, obs[p], Ctx(conn)))
    /\ UNCHANGED << running, port_stats, data_buffer, lock, flusher,
                    fresh_flush, saved, writer, call, wsm, handed,
                    stopper >>

(***************************************************************************)
(* buffer_flush_task and flush_buffer.                                     *)
(***************************************************************************)
\* while self.running: back to the sleep, or the end of the task
FlusherLoop(f) ==
    IF running THEN [f EXCEPT !.pc = "sleep"] ELSE [f EXCEPT !.pc = "done"]

\* what tells one sample from every other: its port, device and timestamp
SampleId(d) == << d.port_name, d.device_name, d.timestamp >>

\* buffer_to_save as the history keeps it: one SampleId per sample, in order
Ids(buffer_to_save) ==
    [i \in DOMAIN buffer_to_save |-> SampleId(buffer_to_save[i])]

\* a sequence, last element first
Reverse(s) == [i \in DOMAIN s |-> s[Len(s) + 1 - i]]

\* a flush that hands the copy newest sample first
SnapshotNewestFirst ==
    /\ flusher' = [pc |-> "saving", buffer_to_save |-> Reverse(data_buffer)]
    /\ data_buffer' = << >>
    /\ fresh_flush' = TRUE
    /\ handed' = Append(handed, Ids(Reverse(data_buffer)))
    /\ UNCHANGED lock

\* a flush that copies the buffer and does not clear it
SnapshotKeepsBuffer ==
    /\ flusher' = [pc |-> "saving", buffer_to_save |-> data_buffer]
    /\ data_buffer' = data_buffer
    /\ fresh_flush' = TRUE
    /\ handed' = Append(handed, Ids(data_buffer))
    /\ UNCHANGED lock

\* flush_buffer with self.lock taken: copy, clear, set last_flush, release;
\* save_device_data is then called with each sample of the copy
Snapshot ==
    /\ flusher' = [pc |-> "saving", buffer_to_save |-> data_buffer]
    /\ data_buffer' = << >>
    /\ fresh_flush' = TRUE
    /\ handed' = Append(handed, Ids(data_buffer))
    /\ UNCHANGED lock

\* the sleep of buffer_flush_interval is over.  time.time() - last_flush is
\* below the interval exactly when last_flush was set during the sleep.
FlusherWake ==
    /\ flusher.pc = "sleep"
    /\ IF fresh_flush \/ data_buffer = << >>
       THEN /\ flusher' = FlusherLoop(flusher)
            /\ fresh_flush' = FALSE
            /\ UNCHANGED << data_buffer, lock, handed >>
       ELSE IF lock = "free"
       THEN Snapshot
       ELSE /\ flusher' = [flusher EXCEPT !.pc = "lock_wait"]
            /\ UNCHANGED << data_buffer, lock, fresh_flush, handed >>
    /\ UNCHANGED << running, port_clients, runner, port_stats,
                    saved, writer, obs, call, wsm, stopper >>

\* asyncio.gather over save_device_data returned.  save_device_data logs
\* its own exceptions and gather is given return_exceptions=True: whether a
\* save succeeded changes nothing the engine keeps
FlusherSaved ==
    /\ flusher.pc = "saving"
    /\ saved' = saved + Len(flusher.buffer_to_save)
    /\ flusher' = FlusherLoop([flusher EXCEPT !.buffer_to_save = << >>])
    /\ fresh_flush' = FALSE
    /\ UNCHANGED << running, port_clients, runner, port_stats,
                    data_buffer, lock, writer, obs, call, wsm, handed,
                    stopper >>

(***************************************************************************)
(* write_register, called by the control plane.                            *)
(***************************************************************************)
\* the requests the engine is run with: a port with a runner and a name
\* that is no port, a device of port A and a name that is none, a kind that
\* is written and one that is not
WritePorts == {"A", "X"}
WriteDevices == {"d1", "zz"}
WriteKinds == {"holding", "input"}

\* next(d for d in port_config.devices if d.name == device_name), or None
HasDevice(port_name, device_name) ==
    \E i \in DOMAIN Devices(port_name) :
        Devices(port_name)[i].name = device_name

\* write_register that takes any device name as a device of the port
write_register_any_device(port_name, device_name, register_type) ==
    IF /\ port_name \in port_clients
       /\ register_type \in {"holding", "coil"}
    THEN [state |-> "inflight", port |-> port_name, result |-> "none"]
    ELSE [state |-> "idle", port |-> "", result |-> "false"]

\* write_register with every kind sent on to the transport
write_register_any_kind(port_name, device_name, register_type) ==
    IF /\ port_name \in port_clients
       /\ HasDevice(port_name, device_name)
    THEN [state |-> "inflight", port |-> port_name, result |-> "none"]
    ELSE [state |-> "idle", port |-> "", result |-> "false"]

\* write_register up to its await of client.write_register / write_coil
\* (a write in flight on the port's client), or up to its return False
write_register(port_name, device_name, register_type) ==
    IF /\ port_name \in port_clients
       /\ HasDevice(port_name, device_name)
       /\ register_type \in {"holding", "coil"}
    THEN [state |-> "inflight", port |-> port_name, result |-> "none"]
    ELSE [state |-> "idle", port |-> "", result |-> "false"]

WriteRegister(port_name, device_name, register_type) ==
    /\ writer.state = "idle"
    /\ writer' = write_register(port_name, device_name, register_type)
    /\ UNCHANGED << running, port_clients, runner, port_stats,
                    data_buffer, lock, flusher, fresh_flush, saved, obs, call, wsm, handed,
                    stopper >>

\* the awaited write returned (True) or raised (False)
WriteDone ==
    /\ writer.state = "inflight"
    /\ \E ok \in BOOLEAN :
          writer' = [state |-> "idle", port |-> "",
                     result |-> IF ok THEN "true" ELSE "false"]
    /\ UNCHANGED << running, port_clients, runner, port_stats,
                    data_buffer, lock, flusher, fresh_flush, saved, obs, call, wsm, handed,
                    stopper >>

Next ==
    \/ Start
    \/ \E p \in Ports : RunnerStart(p)
    \/ \E p \in Ports : ConnectDone(p)
    \/ \E p \in Ports : BackoffDone(p)
    \/ \E p \in Ports : ReadDone(p)
    \/ \E p \in Ports : GapDone(p)
    \/ \E p \in Ports : IntervalDone(p)
    \/ FlusherWake
    \/ FlusherSaved
    \/ \E pn \in WritePorts, dn \in WriteDevices, rt \in WriteKinds :
          WriteRegister(pn, dn, rt)
    \/ WriteDone

Spec == Init /\ [][Next]_vars

(***************************************************************************)
(* PortManager.stop, called by main.run once its own tasks are cancelled,  *)
(* and the database.close() that follows it.  stop() cancels the poll_port *)
(* tasks; the task of buffer_flush_task is kept nowhere and runs on until  *)
(* it reads self.running.                                                  *)
(***************************************************************************)
MaxStopPolls == 2

\* the tasks of port_tasks that are not done
LiveTasks == {p \in Ports : runner[p].pc \notin {"none", "done", "cancelled"}}

\* stop() up to its await of asyncio.gather: running = False and cancel()
\* on every task that is not done; with no such task, on to the clients
Stop ==
    /\ stopper.pc = "none"
    /\ running' = FALSE
    /\ stopper' = [pc |-> IF LiveTasks = {} THEN "close" ELSE "gather",
                   tasks_to_cancel |-> LiveTasks, buffer_to_save |-> << >>]
    /\ UNCHANGED << port_clients, runner, port_stats, data_buffer, lock,
                    flusher, fresh_flush, saved, writer, obs, call, wsm, handed >>

\* a cancelled runner that holds the lock and leaves flush_buffer keeps it
CancelledKeepsLock(p) ==
    /\ p \in stopper.tasks_to_cancel
    /\ LET r == runner[p]
           unwound == r.pc \in {"start", "backoff"}
       IN /\ runner' = [runner EXCEPT ![p] =
                           Idle(IF unwound THEN "cancelled" ELSE "done",
                                r.retry_count)]
          /\ port_clients' = IF unwound THEN port_clients
                             ELSE port_clients \ {p}
    /\ stopper' = [stopper EXCEPT !.tasks_to_cancel = @ \ {p}]
    /\ UNCHANGED << running, port_stats, data_buffer, lock, flusher,
                    fresh_flush, saved, writer, obs, call, wsm, handed >>

\* the CancelledError of task.cancel() is raised in poll_port where it is
\* suspended.  Inside the try of the while body (connect, read, the gap, the
\* post-cycle sleep, the lock of add_to_buffer, the lock of flush_buffer)
\* "except asyncio.CancelledError: break" leads to the code after the loop,
\* which pops and closes the client; leaving add_to_buffer releases the lock
\* it holds.  A task that never ran has nothing to run.  The Backoff sleep
\* is awaited inside an except clause of that try: the CancelledError leaves
\* poll_port there and the code after the loop is not run.
Cancelled(p) ==
    /\ p \in stopper.tasks_to_cancel
    /\ LET r == runner[p]
           unwound == r.pc \in {"start", "backoff"}
       IN /\ runner' = [runner EXCEPT ![p] =
                           Idle(IF unwound THEN "cancelled" ELSE "done",
                                r.retry_count)]
          /\ port_clients' = IF unwound THEN port_clients
                             ELSE port_clients \ {p}
          /\ lock' = IF r.pc = "flush_wait" THEN "free" ELSE lock
    /\ stopper' = [stopper EXCEPT !.tasks_to_cancel = @ \ {p}]
    /\ UNCHANGED << running, port_stats, data_buffer, flusher,
                    fresh_flush, saved, writer, obs, call, wsm, handed >>

\* a gather that returns before the cancelled tasks are done
GatherDoneEarly ==
    /\ stopper.pc = "gather"
    /\ stopper' = [stopper EXCEPT !.pc = "close"]
    /\ UNCHANGED << running, port_clients, runner, port_stats, data_buffer,
                    lock, flusher, fresh_flush, saved, writer, obs, call, wsm,
                    handed >>

\* asyncio.gather(*tasks_to_cancel, return_exceptions=True) returned
GatherDone ==
    /\ stopper.pc = "gather"
    /\ stopper.tasks_to_cancel = {}
    /\ stopper' = [stopper EXCEPT !.pc = "close"]
    /\ UNCHANGED << running, port_clients, runner, port_stats, data_buffer,
                    lock, flusher, fresh_flush, saved, writer, obs, call, wsm,
                    handed >>

\* flush_buffer as stop() runs it with self.lock taken: the copy is handed
\* to save_device_data, last_flush is set
FinalSnapshot ==
    /\ stopper' = [stopper EXCEPT !.pc = "saving",
                                  !.buffer_to_save = data_buffer]
    /\ data_buffer' = << >>
    /\ fresh_flush' = IF flusher.pc = "sleep" THEN TRUE ELSE fresh_flush
    /\ handed' = Append(handed, Ids(data_buffer))

\* the rest of stop(): close() on every client of port_clients (none is
\* removed), then flush_buffer up to its first await; an empty buffer
\* returns at once, a lock another task is due to take is waited for
FinalFlush ==
    /\ stopper.pc = "close"
    /\ IF data_buffer = << >>
       THEN /\ stopper' = [stopper EXCEPT !.pc = "returned"]
            /\ UNCHANGED << data_buffer, fresh_flush, handed >>
       ELSE IF lock = "free" /\ flusher.pc # "lock_wait"
       THEN FinalSnapshot
       ELSE /\ stopper' = [stopper EXCEPT !.pc = "lock_wait"]
            /\ UNCHANGED << data_buffer, fresh_flush, handed >>
    /\ UNCHANGED << running, port_clients, runner, port_stats, lock,
                    flusher, saved, writer, obs, call, wsm >>

\* stop() is given self.lock, after the waiters that came before it
FinalAcquire ==
    /\ stopper.pc = "lock_wait"
    /\ lock = "free"
    /\ flusher.pc # "lock_wait"
    /\ FinalSnapshot
    /\ UNCHANGED << running, port_clients, runner, port_stats, lock,
                    flusher, saved, writer, obs, call, wsm >>

\* asyncio.gather over save_device_data returned: stop() returns
\* (buffer_to_save stays as flush_buffer last had it)
FinalSaved ==
    /\ stopper.pc = "saving"
    /\ saved' = saved + Len(stopper.buffer_to_save)
    /\ stopper' = [stopper EXCEPT !.pc = "returned"]
    /\ UNCHANGED << running, port_clients, runner, port_stats, data_buffer,
                    lock, flusher, fresh_flush, writer, obs, call, wsm, handed >>

\* main.run after port_manager.stop(): database.close()
DatabaseClose ==
    /\ stopper.pc = "returned"
    /\ stopper' = [stopper EXCEPT !.pc = "closed"]
    /\ UNCHANGED << running, port_clients, runner, port_stats, data_buffer,
                    lock, flusher, fresh_flush, saved, writer, obs, call, wsm,
                    handed >>

\* the flush task is given self.lock once its holder has released it
FlusherAcquire ==
    /\ flusher.pc = "lock_wait"
    /\ lock = "free"
    /\ Snapshot
    /\ UNCHANGED << running, port_clients, runner, port_stats,
                    saved, writer, obs, call, wsm, stopper >>

\* no more than MaxStopPolls device polls are started
StopCap == TotalPolls(obs') <= MaxStopPolls

\* the engine polling (no write request is made) and its shutdown
StopNext ==
    \/ Start
    \/ \E p \in Ports : RunnerStart(p) /\ StopCap
    \/ \E p \in Ports : ConnectDone(p) /\ StopCap
    \/ \E p \in Ports : BackoffDone(p) /\ StopCap
    \/ \E p \in Ports : ReadDone(p) /\ StopCap
    \/ \E p \in Ports : GapDone(p) /\ StopCap
    \/ \E p \in Ports : IntervalDone(p) /\ StopCap
    \/ FlusherWake
    \/ FlusherSaved
    \/ Stop
    \/ \E p \in Ports : Cancelled(p)
    \/ GatherDone
    \/ FinalFlush
    \/ FinalAcquire
    \/ FinalSaved
    \/ DatabaseClose
    \/ FlusherAcquire

StopSpec == Init /\ [][StopNext]_vars

\* the steps that wait for nothing outside the program: those of the flush
\* task (a timer, the lock, the gather of the saves), the delivery of a
\* cancellation, and those of stop() once it is called.  When stop() is
\* called is up to the operator; how long a device takes is up to the bus.
Scheduled ==
    \/ FlusherWake
    \/ FlusherSaved
    \/ FlusherAcquire
    \/ \E p \in Ports : Cancelled(p)
    \/ GatherDone
    \/ FinalFlush
    \/ FinalAcquire
    \/ FinalSaved
    \/ DatabaseClose

\* the event loop runs a task that is ready: as long as one of these steps
\* can be taken, a step is taken
FairStopSpec == StopSpec /\ WF_vars(Scheduled)

(***************************************************************************)
(* DataConverter.  A Python value is kept with its type: bool is a         *)
(* subclass of int whose values are 0 and 1.  scale and offset are floats  *)
(* of whole-number value here: the arithmetic on them is exact and         *)
(* round(value, precision) leaves the value as it is for any precision.    *)
(***************************************************************************)
PyInt(v) == [type |-> "int", v |-> v]
PyFloat(v) == [type |-> "float", v |-> v]
PyBool(b) == [type |-> "bool", v |-> IF b THEN 1 ELSE 0]
ValueError == [type |-> "ValueError"]

\* isinstance(value, (int, float)): true of a bool as well
IsIntOrFloat(value) == value.type \in {"int", "float", "bool"}

\* ((value & 0xFF) << 8) | ((value >> 8) & 0xFF)
ByteSwap(value) == ((value % 256) * 256) + ((value \div 256) % 256)

\* an int16_to_signed that takes 0x8000 for a positive number
int16_to_signed_above(value, byteorder) ==
    LET v == IF byteorder = "little" THEN ByteSwap(value) ELSE value
    IN IF v > 32768 THEN v - 65536 ELSE v

int16_to_signed(value, byteorder) ==
    LET v == IF byteorder = "little" THEN ByteSwap(value) ELSE value
    IN IF v >= 32768 THEN v - 65536 ELSE v

\* A Python int of more than 16 bits is kept as two digits of base 65536:
\* Wide(hi, lo) stands for hi * 65536 + lo, with lo in 0..65535.
Wide(hi, lo) == [type |-> "int", hi |-> hi, lo |-> lo]

\* an int32_from_registers that swaps the bytes of the high word only
int32_from_registers_high_only(high, low, byteorder, wordorder) ==
    LET h0 == IF wordorder = "little" THEN low ELSE high
        l0 == IF wordorder = "little" THEN high ELSE low
        h == IF byteorder = "little" THEN ByteSwap(h0) ELSE h0
    IN IF h >= 32768 THEN Wide(h - 65536, l0) ELSE Wide(h, l0)

\* value = (high << 16) | low has the digits high and low; it is at least
\* 0x80000000 when high is at least 0x8000, and value - 0x100000000 takes
\* 0x10000 from the high digit
int32_from_registers(high, low, byteorder, wordorder) ==
    LET h0 == IF wordorder = "little" THEN low ELSE high
        l0 == IF wordorder = "little" THEN high ELSE low
        h == IF byteorder = "little" THEN ByteSwap(h0) ELSE h0
        l == IF byteorder = "little" THEN ByteSwap(l0) ELSE l0
    IN IF h >= 32768 THEN Wide(h - 65536, l) ELSE Wide(h, l)

\* a uint32_from_registers that takes the words as they come, whatever
\* the word order
uint32_from_registers_no_wordorder(high, low, byteorder, wordorder) ==
    LET h == IF byteorder = "little" THEN ByteSwap(high) ELSE high
        l == IF byteorder = "little" THEN ByteSwap(low) ELSE low
    IN Wide(h, l)

uint32_from_registers(high, low, byteorder, wordorder) ==
    LET h0 == IF wordorder = "little" THEN low ELSE high
        l0 == IF wordorder = "little" THEN high ELSE low
        h == IF byteorder = "little" THEN ByteSwap(h0) ELSE h0
        l == IF byteorder = "little" THEN ByteSwap(l0) ELSE l0
    IN Wide(h, l)

\* struct.pack('>HH', high, low) read as '>f': the float is kept as the
\* two words it is read from
float_from_registers(high, low, byteorder, wordorder) ==
    LET h0 == IF wordorder = "little" THEN low ELSE high
        l0 == IF wordorder = "little" THEN high ELSE low
        h == IF byteorder = "little" THEN ByteSwap(h0) ELSE h0
        l == IF byteorder = "little" THEN ByteSwap(l0) ELSE l0
    IN [type |-> "float", packed |-> << h, l >>]

\* value * scale + offset, a float: of a 16-bit value, of a wide value
\* (digit by digit, the carry of the low digit going to the high one), and
\* of a float read from registers, whose operands are kept
Scaled(value, scale, offset) ==
    IF "v" \in DOMAIN value THEN PyFloat(value.v * scale + offset)
    ELSE IF "hi" \in DOMAIN value
    THEN LET low == value.lo * scale + offset
         IN [type |-> "float", hi |-> value.hi * scale + (low \div 65536),
             lo |-> low % 65536]
    ELSE [type |-> "float", packed |-> value.packed, scale |-> scale,
          offset |-> offset]

convert_value(raw_value, data_type, scale, offset, byteorder, wordorder) ==
    LET value ==
            CASE data_type = "int16" -> PyInt(int16_to_signed(raw_value, byteorder))
              [] data_type = "uint16" ->
                    PyInt(IF byteorder = "little" THEN ByteSwap(raw_value)
                          ELSE raw_value)
              [] data_type = "bool" -> PyBool(raw_value # 0)
              [] OTHER -> PyInt(raw_value)
    IN IF IsIntOrFloat(value) THEN Scaled(value, scale, offset) ELSE value

convert_from_registers(registers, data_type, byteorder, wordorder, scale, offset) ==
    IF registers = << >> THEN ValueError
    ELSE IF data_type \in {"int16", "uint16", "bool"}
    THEN convert_value(registers[1], data_type, scale, offset, byteorder, wordorder)
    ELSE IF data_type \in {"int32", "uint32", "float"}
    THEN IF Len(registers) < 2 THEN ValueError
         ELSE LET value ==
                      CASE data_type = "int32" ->
                               int32_from_registers(registers[1], registers[2],
                                                    byteorder, wordorder)
                        [] data_type = "uint32" ->
                               uint32_from_registers(registers[1], registers[2],
                                                     byteorder, wordorder)
                        [] data_type = "float" ->
                               float_from_registers(registers[1], registers[2],
                                                    byteorder, wordorder)
              IN Scaled(value, scale, offset)
    ELSE ValueError

(***************************************************************************)
(* PortStatistics on its own: record_poll called on the statistics of port *)
(* A with every device name a configuration can carry.  The schema asks a  *)
(* device name to be a string and no more, so "" is one of them.           *)
(***************************************************************************)
MaxRecords == 4

\* what the engine holds besides port_stats; the function specifications
\* leave it as PortManager.__init__ made it
EngineVars == << running, port_clients, runner, data_buffer, lock, flusher,
                fresh_flush, saved, writer, obs, handed, stopper, wsm >>

RecordNames == DeviceNames("A") \cup {""}

\* stats.record_poll(device_name, success, response_time) of port A
RecordPoll(device_name, success, has_time) ==
    /\ port_stats["A"].total_polls < MaxRecords
    /\ port_stats' = [port_stats EXCEPT
                         !["A"] = record_poll(@, device_name, success, has_time)]
    /\ call' = [op |-> "record_poll", device_name |-> device_name,
                success |-> success]
    /\ UNCHANGED EngineVars

StatsNext ==
    \E device_name \in RecordNames, success \in BOOLEAN, has_time \in BOOLEAN :
        RecordPoll(device_name, success, has_time)

StatsSpec == Init /\ [][StatsNext]_vars

\* the sum of one counter over the device_stats entries of the names in S
RECURSIVE SumDeviceStat(_, _, _)
SumDeviceStat(device_stats, field, S) ==
    IF S = {} THEN 0
    ELSE LET n == CHOOSE x \in S : TRUE
         IN device_stats[n][field] + SumDeviceStat(device_stats, field, S \ {n})

(***************************************************************************)
(* get_port_status on its own: the statistics of port A hold any counter   *)
(* values polls of its device d1 can leave, and the status is asked once.  *)
(***************************************************************************)
MaxCount == 12

\* the engine's fields as PortManager.__init__ leaves them
EngineAtRest ==
    /\ running = FALSE
    /\ port_clients = {}
    /\ runner = [p \in Ports |-> Idle("none", 0)]
    /\ data_buffer = << >>
    /\ lock = "free"
    /\ flusher = [pc |-> "none", buffer_to_save |-> << >>]
    /\ fresh_flush = FALSE
    /\ saved = 0
    /\ writer = [state |-> "idle", port |-> "", result |-> "none"]
    /\ obs = [p \in Ports |-> NewObs]
    /\ handed = << >>
    /\ stopper = NoStop
    /\ wsm = NewWebSocketManager

\* the PortStatistics of port A after s successful and e failed polls of d1
StatsAfter(s, e) ==
    [NewPortStatistics("A") EXCEPT
        !.total_polls = s + e, !.successful_polls = s, !.failed_polls = e,
        !.error_count = e,
        !.connected_devices = IF s > 0 THEN {"d1"} ELSE {},
        !.device_stats["d1"] =
            [total_polls |-> s + e, successful_polls |-> s, failed_polls |-> e]]

StatusInit ==
    /\ EngineAtRest
    /\ \E s \in 0..MaxCount, e \in 0..MaxCount :
          port_stats = [p \in Ports |->
                           IF p = "A" THEN StatsAfter(s, e)
                           ELSE NewPortStatistics(p)]
    /\ call = NoCall

\* port_manager.get_port_status(port_name); "X" is not a port
GetPortStatus(port_name) ==
    /\ call = NoCall
    /\ call' = [op |-> "get_port_status", port_name |-> port_name,
                result |-> get_port_status(port_stats, port_name)]
    /\ UNCHANGED << EngineVars, port_stats >>

StatusNext == \E port_name \in {"A", "X"} : GetPortStatus(port_name)

StatusSpec == StatusInit /\ [][StatusNext]_vars

(***************************************************************************)
(* group_registers_into_blocks on its own: the holding registers of one    *)
(* device, declared in any order, with any of the data types.              *)
(***************************************************************************)
MaxRegs == 4

BlockAddresses == {10, 11, 13, 20}
BlockDataTypes == {"int16", "uint16", "float"}

\* the register lists of at most MaxRegs holding registers
RegisterLists ==
    UNION {[1..n -> {Reg("holding", a, dt) :
                        a \in BlockAddresses, dt \in BlockDataTypes}] :
           n \in 0..MaxRegs}

BlocksInit ==
    /\ EngineAtRest
    /\ port_stats = [p \in Ports |-> NewPortStatistics(p)]
    /\ \E registers \in RegisterLists :
          call = [op |-> "registers", registers |-> registers, blocks |-> << >>]

\* blocks = self.group_registers_into_blocks(reg_list)
GroupRegisters ==
    /\ call.op = "registers"
    /\ call' = [call EXCEPT !.op = "group_registers_into_blocks",
                            !.blocks = group_registers_into_blocks(call.registers)]
    /\ UNCHANGED << EngineVars, port_stats >>

BlocksNext == GroupRegisters

BlocksSpec == BlocksInit /\ [][BlocksNext]_vars

\* the number of 16-bit words a register covers from its address on
Span(r) == IF Is32(r.data_type) THEN 2 ELSE 1

RECURSIVE SumSeq(_)
SumSeq(s) == IF s = << >> THEN 0 ELSE s[1] + SumSeq(Tail(s))

DistinctAddresses(registers) ==
    \A i, j \in DOMAIN registers :
        i # j => registers[i].address # registers[j].address

(***************************************************************************)
(* The reads of poll_device on their own: a device whose registers of one  *)
(* kind form a single run of consecutive addresses.                        *)
(***************************************************************************)
MaxRun == 126

RegisterKinds == {"holding", "input", "coil", "discrete"}

\* n registers of one kind at consecutive addresses from 0 on
RunOf(kind, n) ==
    [i \in 1..n |->
        Reg(kind, i - 1, IF kind \in {"holding", "input"} THEN "uint16" ELSE "bool")]

\* the request read_register_block hands to the client
read_register_block(reg_type, start_addr, count) ==
    [fn |-> CASE reg_type = "holding" -> "read_holding_registers"
              [] reg_type = "input" -> "read_input_registers"
              [] reg_type = "coil" -> "read_coils"
              [] reg_type = "discrete" -> "read_discrete_inputs"
              [] OTHER -> "ValueError",
     address |-> start_addr, count |-> count]

ReadsInit ==
    /\ EngineAtRest
    /\ port_stats = [p \in Ports |-> NewPortStatistics(p)]
    /\ \E kind \in RegisterKinds, n \in 1..MaxRun :
          call = [op |-> "registers", registers |-> RunOf(kind, n),
                  reads |-> << >>]

\* the loops of poll_device over the kinds and their blocks: one
\* read_register_block per block, with the block's start and count
IssueReads ==
    /\ call.op = "registers"
    /\ LET plan == Plan([registers |-> call.registers])
       IN call' = [call EXCEPT
                      !.op = "poll_device",
                      !.reads = [b \in DOMAIN plan[1].blocks |->
                                    read_register_block(plan[1].reg_type,
                                                        plan[1].blocks[b][1],
                                                        plan[1].blocks[b][2])]]
    /\ UNCHANGED << EngineVars, port_stats >>

ReadsNext == IssueReads

ReadsSpec == ReadsInit /\ [][ReadsNext]_vars

(***************************************************************************)
(* DataConverter on its own: the conversions process_register_block asks   *)
(* for, one register through convert_value, two through                    *)
(* convert_from_registers.                                                 *)
(***************************************************************************)
ByteOrders == {"big", "little"}
Words == 0..65535
SampleWords == {0, 1, 255, 256, 4660, 32767, 32768, 43981, 65280, 65535}
Scales == {1, 2, 10}
Offsets == {-1, 0, 5}

\* every word as int16 and uint16 with the default scale and offset; the
\* sample words with every 16-bit type, scale and offset; the pairs of
\* sample words as int32 and uint32
DecodeInputs ==
    [registers : {<< w >> : w \in Words}, data_type : {"int16", "uint16"},
     byteorder : ByteOrders, wordorder : {"big"}, scale : {1}, offset : {0}]
    \cup
    [registers : {<< w >> : w \in SampleWords},
     data_type : {"int16", "uint16", "bool"},
     byteorder : ByteOrders, wordorder : ByteOrders,
     scale : Scales, offset : Offsets]
    \cup
    [registers : {<< w0, w1 >> : w0 \in SampleWords, w1 \in SampleWords},
     data_type : {"int32", "uint32"},
     byteorder : ByteOrders, wordorder : ByteOrders, scale : {1}, offset : {0}]

DecodeInit ==
    /\ EngineAtRest
    /\ port_stats = [p \in Ports |-> NewPortStatistics(p)]
    /\ \E args \in DecodeInputs : call = [op |-> "registers", args |-> args]

\* process_register_block, register_count == 1
ConvertValue ==
    /\ call.op = "registers"
    /\ Len(call.args.registers) = 1
    /\ LET a == call.args
       IN call' = [op |-> "convert_value", args |-> a,
                   value |-> convert_value(a.registers[1], a.data_type, a.scale,
                                           a.offset, a.byteorder, a.wordorder)]
    /\ UNCHANGED << EngineVars, port_stats >>

\* process_register_block, register_count == 2
ConvertFromRegisters ==
    /\ call.op = "registers"
    /\ Len(call.args.registers) = 2
    /\ LET a == call.args
       IN call' = [op |-> "convert_from_registers", args |-> a,
                   value |-> convert_from_registers(a.registers, a.data_type,
                                                    a.byteorder, a.wordorder,
                                                    a.scale, a.offset)]
    /\ UNCHANGED << EngineVars, port_stats >>

DecodeNext == ConvertValue \/ ConvertFromRegisters

DecodeSpec == DecodeInit /\ [][DecodeNext]_vars

\* a call examined with the default scale 1.0 and offset 0.0
Decoded(op, data_type) ==
    /\ call.op = op
    /\ call.args.data_type = data_type
    /\ call.args.scale = 1
    /\ call.args.offset = 0

\* the word whose most significant byte is hi and least significant lo
WordOf(hi, lo) == hi * 256 + lo

\* the 16 bits of a register word as the byte order reads them
Pattern16(w, byteorder) ==
    IF byteorder = "big" THEN WordOf(w \div 256, w % 256)
    ELSE WordOf(w % 256, w \div 256)

(***************************************************************************)
(* DataConverter read back: a value of an integer type is laid out in      *)
(* registers as a device would hold it under a byte and word order, and    *)
(* the registers are converted as process_register_block converts them.    *)
(* The layout is no code of the gateway: it is the device's side.          *)
(***************************************************************************)
\* the register holding the 16 bits bits under a byte order
WordHeld(bits, byteorder) ==
    IF byteorder = "big" THEN bits ELSE WordOf(bits % 256, bits \div 256)

\* the registers of a device holding v (16-bit types) or hi * 65536 + lo
\* (32-bit types), negative numbers in two's complement
RegistersHolding(value, data_type, byteorder, wordorder) ==
    IF data_type \in {"int16", "uint16"}
    THEN << WordHeld(value.v % 65536, byteorder) >>
    ELSE LET h == WordHeld(value.hi % 65536, byteorder)
             l == WordHeld(value.lo, byteorder)
         IN IF wordorder = "big" THEN << h, l >> ELSE << l, h >>

SampleInt16 == {-32768, -32767, -256, -1, 0, 1, 255, 256, 4660, 32767}

\* every int16 and uint16 value under both byte orders; sample 16-bit
\* values under every order pair; 32-bit values of sample digits
HeldInputs ==
    [value : {PyInt(v) : v \in -32768..32767}, data_type : {"int16"},
     byteorder : ByteOrders, wordorder : {"big"}]
    \cup
    [value : {PyInt(v) : v \in Words}, data_type : {"uint16"},
     byteorder : ByteOrders, wordorder : {"big"}]
    \cup
    [value : {PyInt(v) : v \in SampleInt16}, data_type : {"int16"},
     byteorder : ByteOrders, wordorder : ByteOrders]
    \cup
    [value : {PyInt(v) : v \in SampleWords}, data_type : {"uint16"},
     byteorder : ByteOrders, wordorder : ByteOrders]
    \cup
    [value : {Wide(hi, lo) : hi \in SampleInt16, lo \in SampleWords},
     data_type : {"int32"}, byteorder : ByteOrders, wordorder : ByteOrders]
    \cup
    [value : {Wide(hi, lo) : hi \in SampleWords, lo \in SampleWords},
     data_type : {"uint32"}, byteorder : ByteOrders, wordorder : ByteOrders]

HeldInit ==
    /\ EngineAtRest
    /\ port_stats = [p \in Ports |-> NewPortStatistics(p)]
    /\ \E held \in HeldInputs : call = [op |-> "held", held |-> held]

\* the device's register read and converted by convert_value with the
\* default scale and offset
ReadBack16 ==
    /\ call.op = "held"
    /\ call.held.data_type \in {"int16", "uint16"}
    /\ LET h == call.held
           registers == RegistersHolding(h.value, h.data_type, h.byteorder,
                                         h.wordorder)
       IN call' = [op |-> "convert_value", held |-> h, registers |-> registers,
                   value |-> convert_value(registers[1], h.data_type, 1, 0,
                                           h.byteorder, h.wordorder)]
    /\ UNCHANGED << EngineVars, port_stats >>

\* the device's two registers read and converted by convert_from_registers
ReadBack32 ==
    /\ call.op = "held"
    /\ call.held.data_type \in {"int32", "uint32"}
    /\ LET h == call.held
           registers == RegistersHolding(h.value, h.data_type, h.byteorder,
                                         h.wordorder)
       IN call' = [op |-> "convert_from_registers", held |-> h,
                   registers |-> registers,
                   value |-> convert_from_registers(registers, h.data_type,
                                                    h.byteorder, h.wordorder,
                                                    1, 0)]
    /\ UNCHANGED << EngineVars, port_stats >>

HeldNext == ReadBack16 \/ ReadBack32

HeldSpec == HeldInit /\ [][HeldNext]_vars

(***************************************************************************)
(* The two entry points of DataConverter called with what they cannot      *)
(* convert: a 32-bit type with fewer than two words, a data type that is   *)
(* none of DataType.                                                       *)
(***************************************************************************)
Types32 == {"int32", "uint32", "float"}
UnknownTypes == {"int64", "string"}

EntryInputs ==
    [registers : {<< >>} \cup {<< w >> : w \in SampleWords},
     data_type : Types32 \cup UnknownTypes,
     byteorder : ByteOrders, wordorder : ByteOrders, scale : {1}, offset : {0}]
    \cup
    [registers : {<< w, w >> : w \in SampleWords}, data_type : UnknownTypes,
     byteorder : ByteOrders, wordorder : ByteOrders, scale : {1}, offset : {0}]

EntryInit ==
    /\ EngineAtRest
    /\ port_stats = [p \in Ports |-> NewPortStatistics(p)]
    /\ \E args \in EntryInputs : call = [op |-> "registers", args |-> args]

\* DataConverter.convert_value(raw_value, data_type, ...): it takes one word
CallConvertValue ==
    /\ call.op = "registers"
    /\ Len(call.args.registers) >= 1
    /\ LET a == call.args
       IN call' = [op |-> "convert_value", args |-> a,
                   value |-> convert_value(a.registers[1], a.data_type, a.scale,
                                           a.offset, a.byteorder, a.wordorder)]
    /\ UNCHANGED << EngineVars, port_stats >>

\* DataConverter.convert_from_registers(registers, data_type, ...)
CallConvertFromRegisters ==
    /\ call.op = "registers"
    /\ LET a == call.args
       IN call' = [op |-> "convert_from_registers", args |-> a,
                   value |-> convert_from_registers(a.registers, a.data_type,
                                                    a.byteorder, a.wordorder,
                                                    a.scale, a.offset)]
    /\ UNCHANGED << EngineVars, port_stats >>

EntryNext == CallConvertValue \/ CallConvertFromRegisters

EntrySpec == EntryInit /\ [][EntryNext]_vars

(***************************************************************************)
(* write_register called with every register kind of RegisterType while    *)
(* the runners start and connect.                                          *)
(***************************************************************************)
\* a call of write_register, kept with its arguments
CallWriteRegister(port_name, device_name, register_type) ==
    /\ writer.state = "idle"
    /\ writer' = write_register(port_name, device_name, register_type)
    /\ call' = [op |-> "write_register", port_name |-> port_name,
                device_name |-> device_name, register_type |-> register_type]
    /\ UNCHANGED << running, port_clients, runner, port_stats,
                    data_buffer, lock, flusher, fresh_flush, saved, obs,
                    handed, stopper, wsm >>

WriteNext ==
    \/ Start
    \/ \E p \in Ports : RunnerStart(p)
    \/ \E p \in Ports : ConnectDone(p)
    \/ \E pn \in Ports \cup {"X"}, dn \in WriteDevices, rt \in RegisterKinds :
          CallWriteRegister(pn, dn, rt)
    \/ WriteDone

WriteSpec == Init /\ [][WriteNext]_vars

(***************************************************************************)
(* The control plane at work while the engine polls: write_register,       *)
(* get_port_status and get_all_ports_status, each call kept with its       *)
(* arguments and its result.                                               *)
(***************************************************************************)
MaxControlPolls == 2

\* port_manager.get_port_status(port_name) at any time; "X" is not a port
CallGetPortStatus(port_name) ==
    /\ call' = [op |-> "get_port_status", port_name |-> port_name,
                result |-> get_port_status(port_stats, port_name)]
    /\ UNCHANGED << EngineVars, port_stats >>

\* get_all_ports_status: get_port_status of every key of port_configs
get_all_ports_status(stats) ==
    [port_name \in Ports |-> get_port_status(stats, port_name)]

CallGetAllPortsStatus ==
    /\ call' = [op |-> "get_all_ports_status",
                result |-> get_all_ports_status(port_stats)]
    /\ UNCHANGED << EngineVars, port_stats >>

\* no more than MaxControlPolls device polls are started
ControlCap == TotalPolls(obs') <= MaxControlPolls

\* the flush task sleeps on: its interval of 5 s does not run out
ControlNext ==
    \/ Start
    \/ \E p \in Ports : RunnerStart(p) /\ ControlCap
    \/ \E p \in Ports : ConnectDone(p) /\ ControlCap
    \/ \E p \in Ports : BackoffDone(p) /\ ControlCap
    \/ \E p \in Ports : ReadDone(p) /\ ControlCap
    \/ \E p \in Ports : GapDone(p) /\ ControlCap
    \/ \E p \in Ports : IntervalDone(p) /\ ControlCap
    \/ \E pn \in Ports \cup {"X"}, dn \in WriteDevices, rt \in WriteKinds :
          CallWriteRegister(pn, dn, rt)
    \/ WriteDone
    \/ \E pn \in Ports \cup {"X"} : CallGetPortStatus(pn)
    \/ CallGetAllPortsStatus

ControlSpec == Init /\ [][ControlNext]_vars

(***************************************************************************)
(* The engine given the second configuration: the runners of port A and of *)
(* port D, whose cycle polls no device and ends in adjust_polling_interval *)
(* with min() of an empty sequence.                                        *)
(***************************************************************************)
MaxRetryPolls == 2

RetryInit ==
    /\ running = FALSE
    /\ port_clients = {}
    /\ runner = [p \in RetryPorts |-> Idle("none", 0)]
    /\ port_stats = [p \in RetryPorts |-> NewPortStatistics(p)]
    /\ data_buffer = << >>
    /\ lock = "free"
    /\ flusher = [pc |-> "none", buffer_to_save |-> << >>]
    /\ fresh_flush = FALSE
    /\ saved = 0
    /\ writer = [state |-> "idle", port |-> "", result |-> "none"]
    /\ obs = [p \in RetryPorts |-> NewObs]
    /\ call = NoCall
    /\ handed = << >>
    /\ stopper = NoStop
    /\ wsm = NewWebSocketManager

RetryCap == TotalPolls(obs') <= MaxRetryPolls

RetryNext ==
    \/ Start
    \/ \E p \in RetryPorts : RunnerStart(p) /\ RetryCap
    \/ \E p \in RetryPorts : ConnectDone(p) /\ RetryCap
    \/ \E p \in RetryPorts : BackoffDone(p) /\ RetryCap
    \/ \E p \in RetryPorts : ReadDone(p) /\ RetryCap
    \/ \E p \in RetryPorts : GapDone(p) /\ RetryCap
    \/ \E p \in RetryPorts : IntervalDone(p) /\ RetryCap

RetrySpec == RetryInit /\ [][RetryNext]_vars

(***************************************************************************)
(* adjust_polling_interval on its own: the devices of one port, enabled or *)
(* not, and the time the cycle just completed has taken (milliseconds).    *)
(***************************************************************************)
MaxDevices == 3

estimated_device_time == 50

PollIntervals == {100, 1000}

ElapsedTimes == {0, 80, 2000}

\* the device lists of at most MaxDevices devices
DeviceLists ==
    UNION {[1..n -> {Dev("d", en, pi, << >>) : en \in BOOLEAN, pi \in PollIntervals}] :
           n \in 0..MaxDevices}

\* adjust_polling_interval(port_config): how the call ends and the delay it
\* sleeps.  min() of the poll_interval of no enabled device raises
\* ValueError; cycle_time is an estimate over all the devices of the port.
adjust_polling_interval(devices) ==
    LET en == {j \in DOMAIN devices : devices[j].enabled}
        min_interval ==
            devices[CHOOSE j \in en :
                       \A x \in en :
                           devices[j].poll_interval <= devices[x].poll_interval
                   ].poll_interval
        cycle_time == Len(devices) * estimated_device_time
    IN IF devices = << >> THEN [ended |-> "return", delay |-> 0]
       ELSE IF en = {} THEN [ended |-> "ValueError", delay |-> 0]
       ELSE IF cycle_time < min_interval
       THEN [ended |-> "return", delay |-> min_interval - cycle_time]
       ELSE [ended |-> "return", delay |-> 0]

DelayInit ==
    /\ EngineAtRest
    /\ port_stats = [p \in Ports |-> NewPortStatistics(p)]
    /\ \E devices \in DeviceLists, elapsed \in ElapsedTimes :
          call = [op |-> "cycle", devices |-> devices, elapsed |-> elapsed,
                  result |-> None]

\* await self.adjust_polling_interval(port_config) after a cycle that took
\* call.elapsed
AdjustPollingInterval ==
    /\ call.op = "cycle"
    /\ call' = [call EXCEPT !.op = "adjust_polling_interval",
                            !.result = adjust_polling_interval(call.devices)]
    /\ UNCHANGED << EngineVars, port_stats >>

DelayNext == AdjustPollingInterval

DelaySpec == DelayInit /\ [][DelayNext]_vars

(***************************************************************************)
(* poll_device on its own with every read successful: a device of holding  *)
(* registers at distinct addresses, 16-bit and 32-bit.                     *)
(***************************************************************************)
MaxSampleRegs == 3

SampleAddresses == {10, 11, 12, 14}
SampleDataTypes == {"uint16", "int32", "float"}

\* the register lists of one to MaxSampleRegs registers at distinct addresses
SampleRegisterLists ==
    {registers \in
        UNION {[1..n -> {Reg("holding", a, dt) :
                            a \in SampleAddresses, dt \in SampleDataTypes}] :
               n \in 1..MaxSampleRegs} :
        DistinctAddresses(registers)}

RECURSIVE ReadAll(_, _, _, _)
\* the loops of poll_device from block b of kind k on, every
\* read_register_block answering with a response of the requested length
ReadAll(device, k, b, registers_data) ==
    LET data == AfterRead(device, k, b, "ok", registers_data)
        nb == NextBlock(device, k, b, "ok")
    IN IF nb = << 0, 0 >> THEN data
       ELSE ReadAll(device, nb[1], nb[2], data)

SampleInit ==
    /\ EngineAtRest
    /\ port_stats = [p \in Ports |-> NewPortStatistics(p)]
    /\ \E registers \in SampleRegisterLists :
          call = [op |-> "registers", registers |-> registers,
                  device_data |-> None]

\* device_data = await self.poll_device(client, device_config, port_config)
PollDevice ==
    /\ call.op = "registers"
    /\ LET device == Dev("d", TRUE, 1000, call.registers)
       IN call' = [call EXCEPT
                      !.op = "poll_device",
                      !.device_data =
                          poll_device_result("A", device,
                                             ReadAll(device, 1, 1, {}), 1)]
    /\ UNCHANGED << EngineVars, port_stats >>

SampleNext == PollDevice

SampleSpec == SampleInit /\ [][SampleNext]_vars

(***************************************************************************)
(* write_register called while the engine runs, is being stopped or has    *)
(* been stopped.                                                           *)
(***************************************************************************)
HaltNext ==
    \/ StopNext
    \/ \E port_name \in Ports \cup {"X"}, device_name \in WriteDevices,
          register_type \in WriteKinds :
           WriteRegister(port_name, device_name, register_type)
    \/ WriteDone

HaltSpec == Init /\ [][HaltNext]_vars

(***************************************************************************)
(* The WebSocketManager (websocket_server.py).  subscribe, unsubscribe and *)
(* unregister_websocket contain no suspension point, so each call is one   *)
(* step; websocket.open belongs to the connection and is an input of the   *)
(* broadcast.  A dict is a function whose DOMAIN is its keys.              *)
(***************************************************************************)
MaxQueued == 2

maxsize == 100

Websockets == {"w1", "w2"}

SubDevices == {"d1", "e1"}

\* the samples a broadcast is called with: one of each subscribed device
Messages == { << "A", "d1", 1 >>, << "B", "e1", 1 >> }

\* every engine variable but the WebSocketManager
PortManagerVars == << running, port_clients, runner, port_stats, data_buffer, lock,
                      flusher, fresh_flush, saved, writer, obs, handed, stopper >>

DictSet(d, k, v) == [x \in DOMAIN d \cup {k} |-> IF x = k THEN v ELSE d[x]]

DictDel(d, k) == [x \in DOMAIN d \ {k} |-> d[x]]

\* defaultdict(set): a missing key reads as the empty set
DictGet(d, k) == IF k \in DOMAIN d THEN d[k] ELSE {}

subscribe(m, websocket, device_name) ==
    [m EXCEPT
        !.device_subscriptions =
            DictSet(@, device_name, DictGet(@, device_name) \cup {websocket}),
        !.websocket_subscriptions =
            DictSet(@, websocket, DictGet(@, websocket) \cup {device_name})]

\* an unsubscribe that forgets the index of the websocket
unsubscribe_one_index(m, websocket, device_name) ==
    [m EXCEPT
        !.device_subscriptions =
            IF device_name \in DOMAIN @
            THEN IF @[device_name] \ {websocket} = {}
                 THEN DictDel(@, device_name)
                 ELSE DictSet(@, device_name, @[device_name] \ {websocket})
            ELSE @]

\* both sets are discarded from, and a set left empty is deleted
unsubscribe(m, websocket, device_name) ==
    [m EXCEPT
        !.device_subscriptions =
            IF device_name \in DOMAIN @
            THEN IF @[device_name] \ {websocket} = {}
                 THEN DictDel(@, device_name)
                 ELSE DictSet(@, device_name, @[device_name] \ {websocket})
            ELSE @,
        !.websocket_subscriptions =
            IF websocket \in DOMAIN @
            THEN IF @[websocket] \ {device_name} = {}
                 THEN DictDel(@, websocket)
                 ELSE DictSet(@, websocket, @[websocket] \ {device_name})
            ELSE @]

\* the loop over the device keys, then the two deletions
unregister_websocket(m, websocket) ==
    [m EXCEPT
        !.device_subscriptions =
            [k \in {x \in DOMAIN @ : @[x] \ {websocket} # {}} |-> @[k] \ {websocket}],
        !.websocket_subscriptions =
            IF websocket \in DOMAIN @ THEN DictDel(@, websocket) ELSE @,
        !.message_queues =
            IF websocket \in DOMAIN @ THEN DictDel(@, websocket) ELSE @]

RECURSIVE UnregisterAll(_, _)
\* the loop over dead_websockets
UnregisterAll(m, dead_websockets) ==
    IF dead_websockets = {} THEN m
    ELSE LET websocket == CHOOSE w \in dead_websockets : TRUE
         IN UnregisterAll(unregister_websocket(m, websocket), dead_websockets \ {websocket})

\* put_nowait: a full queue drops the message
PutNowait(queue, message) ==
    IF Len(queue) < maxsize THEN Append(queue, message) ELSE queue

\* open: the websockets whose connection is open at the time of the call
broadcast_to_device(m, device_name, message, open) ==
    IF device_name \notin DOMAIN m.device_subscriptions THEN m
    ELSE LET subscribers == m.device_subscriptions[device_name]
             queued == [m EXCEPT !.message_queues =
                          [w \in DOMAIN @ |->
                              IF w \in subscribers \cap open
                              THEN PutNowait(@[w], message) ELSE @[w]]]
         IN UnregisterAll(queued, subscribers \ open)

\* device_data is the identity of the sample; its device is its second field
broadcast_device_data(m, device_data, open) ==
    LET called == [m EXCEPT !.broadcasts = @ \cup {device_data}]
    IN IF device_data[2] \notin DOMAIN m.device_subscriptions THEN called
       ELSE broadcast_to_device(called, device_data[2], device_data, open)

\* connection_handler up to its first await: the queue of a new connection
ConnectionHandler(websocket) ==
    /\ websocket \notin DOMAIN wsm.message_queues
    /\ websocket \notin DOMAIN wsm.websocket_subscriptions
    /\ wsm' = [wsm EXCEPT !.message_queues = DictSet(@, websocket, << >>)]
    /\ call' = [op |-> "connection_handler", websocket |-> websocket]
    /\ UNCHANGED PortManagerVars

\* message_sender takes the oldest message of the queue
MessageSender(websocket) ==
    /\ websocket \in DOMAIN wsm.message_queues
    /\ wsm.message_queues[websocket] # << >>
    /\ wsm' = [wsm EXCEPT !.message_queues[websocket] = Tail(@)]
    /\ call' = [op |-> "message_sender", websocket |-> websocket]
    /\ UNCHANGED PortManagerVars

Subscribe(websocket, device_name) ==
    /\ wsm' = subscribe(wsm, websocket, device_name)
    /\ call' = [op |-> "subscribe", websocket |-> websocket,
                device_name |-> device_name]
    /\ UNCHANGED PortManagerVars

Unsubscribe(websocket, device_name) ==
    /\ wsm' = unsubscribe(wsm, websocket, device_name)
    /\ call' = [op |-> "unsubscribe", websocket |-> websocket,
                device_name |-> device_name]
    /\ UNCHANGED PortManagerVars

\* before: what the websocket was subscribed to when the call was made
UnregisterWebsocket(websocket) ==
    /\ wsm' = unregister_websocket(wsm, websocket)
    /\ call' = [op |-> "unregister_websocket", websocket |-> websocket,
                before |-> DictGet(wsm.websocket_subscriptions, websocket)]
    /\ UNCHANGED PortManagerVars

\* dead: the subscribers the broadcast found closed
BroadcastDeviceData(device_data, open) ==
    /\ \A w \in DOMAIN wsm.message_queues : Len(wsm.message_queues[w]) < MaxQueued
    /\ wsm' = broadcast_device_data(wsm, device_data, open)
    /\ call' = [op |-> "broadcast_device_data", device_data |-> device_data,
                dead |-> DictGet(wsm.device_subscriptions, device_data[2]) \ open]
    /\ UNCHANGED PortManagerVars

SocketInit ==
    /\ EngineAtRest
    /\ port_stats = [p \in Ports |-> NewPortStatistics(p)]
    /\ call = NoCall

SocketNext ==
    \/ \E websocket \in Websockets : ConnectionHandler(websocket)
    \/ \E websocket \in Websockets : MessageSender(websocket)
    \/ \E websocket \in Websockets, device_name \in SubDevices :
           Subscribe(websocket, device_name)
    \/ \E websocket \in Websockets, device_name \in SubDevices :
           Unsubscribe(websocket, device_name)
    \/ \E websocket \in Websockets : UnregisterWebsocket(websocket)
    \/ \E device_data \in Messages, open \in SUBSET Websockets :
           BroadcastDeviceData(device_data, open)

SocketSpec == SocketInit /\ [][SocketNext]_vars

(***************************************************************************)
(* Properties.                                                             *)
(***************************************************************************)
\* RunnerState of the design (section 3) read off the position of poll_port:
\* Error is the exit with the retries used up (the error logged at the end)
RunnerState(p) ==
    LET r == runner[p]
    IN CASE r.pc \in {"none", "start"} -> "Stopped"
         [] r.pc = "connect" -> "Connecting"
         [] r.pc = "backoff" -> "Backoff"
         [] r.pc = "done" ->
              IF r.retry_count >= PortConfigs[p].max_retries
              THEN "Error" ELSE "Stopped"
         [] OTHER -> "Running"

\* poll_device has returned and poll_port deals with its result
PollOver(p) == runner[p].pc \in {"gap", "lock_wait", "flush_wait"}

\* the step in which poll_device returns
PollReturns(p) == runner[p].pc = "read" /\ PollOver(p)'

\* the registers process_register_block stores for the blocks ok of a
\* device, each read with success
DecodedOfOkBlocks(device, ok) ==
    LET plan == Plan(device)
    IN UNION {process_register_block(
                  plan[kb[1]].reg_type, plan[kb[1]].blocks[kb[2]][1],
                  ResponseLen(plan[kb[1]].reg_type, plan[kb[1]].blocks[kb[2]][2]),
                  plan[kb[1]].reg_list).keys : kb \in ok}

\* C1: on one port at most one Modbus transaction is in flight: a write of
\* write_register and a block read of the poll loop never await their
\* responses on the same port at the same moment.
C1_OneTransactionPerPort ==
    \A p \in Ports :
        ~(runner[p].pc = "read" /\ writer.state = "inflight" /\ writer.port = p)

\* C2: add_to_buffer always returns: the runner that appends the sample
\* bringing the buffer to buffer_size is never left awaiting the buffer
\* lock that it holds itself.
C2_AddToBufferReturns ==
    \A p \in Ports : ~(runner[p].pc = "flush_wait" /\ lock = p)

\* C3: a runner whose connection attempts all fail has made exactly
\* max_retries + 1 attempts, with max_retries waits of retry_delay between
\* them, when it enters Error, and no device poll is recorded for its port.
C3_RetryPolicy ==
    \A p \in Ports :
        (RunnerState(p) = "Error" /\ ~obs[p].ever_connected) =>
            /\ obs[p].attempts = PortConfigs[p].max_retries + 1
            /\ obs[p].backoffs = PortConfigs[p].max_retries
            /\ port_stats[p].total_polls = 0

\* C4: once a runner has used up its connection retries (Error),
\* get_port_status reports the status error for its port.
C4_ErrorSurfaced ==
    \A p \in Ports :
        RunnerState(p) = "Error" => get_port_status(port_stats, p) = "error"

\* C5: a runner is never blocked for good by another port's runner: when
\* it waits for the buffer lock, the holder is not a runner of another port
\* that is itself stuck in its append.
C5_NotBlockedByOtherPort ==
    \A p, q \in Ports :
        p # q => ~(/\ runner[p].pc = "lock_wait"
                   /\ lock = q
                   /\ runner[q].pc = "flush_wait")

\* C6: within a polling cycle the devices polled so far are enabled ones,
\* polled in declaration order, each at most once and none skipped, and the
\* device being polled is the last of them.
C6_PollOrder ==
    \A p \in Ports :
        LET c == obs[p].cycle
            devs == Devices(p)
        IN /\ \A i \in DOMAIN c : c[i] \in DOMAIN devs /\ devs[c[i]].enabled
           /\ \A i \in DOMAIN c :
                 \A j \in DOMAIN devs :
                    (j < c[i] /\ (i = 1 \/ j > c[i - 1])) => ~devs[j].enabled
           /\ \A i \in DOMAIN c : i > 1 => c[i - 1] < c[i]
           /\ (runner[p].pc = "read" \/ PollOver(p)) =>
                 (c # << >> /\ runner[p].dev = c[Len(c)])

\* C6 witness: port A has polled d1 and d3 in one cycle, passing over the
\* disabled d2.
C6_Witness == obs["A"].cycle = << 1, 3 >> /\ runner["A"].pc = "gap"

\* C7: when a device poll is over, every planned block of the device has
\* been read, whatever blocks failed.
C7_AllBlocksRead ==
    \A p \in Ports :
        PollOver(p) =>
            obs[p].ok \cup obs[p].failed = PlannedBlocks(Devices(p)[runner[p].dev])

\* C8: a device poll that decodes no register (poll_device returns None)
\* increases total_polls and failed_polls of the port and of the device by
\* one each.
C8_NoDataCounted ==
    [][\A p \in Ports :
          (PollReturns(p) /\ runner'[p].device_data = None) =>
              LET n == Devices(p)[runner[p].dev].name
              IN /\ port_stats'[p].total_polls = port_stats[p].total_polls + 1
                 /\ port_stats'[p].failed_polls = port_stats[p].failed_polls + 1
                 /\ port_stats'[p].device_stats[n].total_polls =
                       port_stats[p].device_stats[n].total_polls + 1
                 /\ port_stats'[p].device_stats[n].failed_polls =
                       port_stats[p].device_stats[n].failed_polls + 1]_vars

\* C9: poll_device returns a Sample exactly when a register was decoded;
\* the Sample is Online, names its device and port, and holds exactly the
\* registers decoded from the blocks read with success, also when other
\* blocks of the poll failed; the step does not increase failed_polls.
C9_SampleIffDecoded ==
    [][\A p \in Ports :
          PollReturns(p) =>
              LET dd == runner'[p].device_data
                  decoded == DecodedOfOkBlocks(Devices(p)[runner[p].dev],
                                               obs'[p].ok)
              IN /\ (dd # None) <=> (decoded # {})
                 /\ dd # None =>
                       /\ dd.status = "online"
                       /\ dd.registers = decoded
                       /\ dd.device_name = Devices(p)[runner[p].dev].name
                       /\ dd.port_name = p
                       /\ port_stats'[p].failed_polls = port_stats[p].failed_polls
        ]_vars

\* C9 witness: a poll of d1 returned a Sample with the register of the
\* first holding block although the second holding block failed.
C9_Witness ==
    /\ PollOver("A")
    /\ runner["A"].device_data # None
    /\ << 1, 1 >> \in obs["A"].ok
    /\ << 1, 2 >> \in obs["A"].failed
    /\ << "holding", 10 >> \in runner["A"].device_data.registers

\* C10: no failure is silently swallowed: a poll that returns with a failed
\* block read, or with no Sample, increases failed_polls or error_count of
\* its port by the time poll_port has dealt with it.
C10_FailuresCounted ==
    [][\A p \in Ports :
          (/\ PollReturns(p)
           /\ runner'[p].pc = "gap"
           /\ (obs'[p].failed # {} \/ runner'[p].device_data = None)) =>
              \/ port_stats'[p].failed_polls > port_stats[p].failed_polls
              \/ port_stats'[p].error_count > port_stats[p].error_count]_vars

\* C11: after every record_poll the successful and the failed polls of a
\* port add up to its total polls, and none of total_polls,
\* successful_polls, failed_polls and error_count ever decreases, whatever
\* device name record_poll is called with.
C11_CountersConsistent ==
    [][ /\ port_stats'["A"].successful_polls + port_stats'["A"].failed_polls
            = port_stats'["A"].total_polls
        /\ port_stats'["A"].total_polls >= port_stats["A"].total_polls
        /\ port_stats'["A"].successful_polls >= port_stats["A"].successful_polls
        /\ port_stats'["A"].failed_polls >= port_stats["A"].failed_polls
        /\ port_stats'["A"].error_count >= port_stats["A"].error_count ]_vars

\* C12: the per-device total_polls of a port add up to the port's
\* total_polls, and likewise the per-device successful_polls and
\* failed_polls add up to the port's successful_polls and failed_polls.
C12_DeviceSums ==
    LET st == port_stats["A"]
        names == DOMAIN st.device_stats
    IN /\ SumDeviceStat(st.device_stats, "total_polls", names) = st.total_polls
       /\ SumDeviceStat(st.device_stats, "successful_polls", names)
              = st.successful_polls
       /\ SumDeviceStat(st.device_stats, "failed_polls", names) = st.failed_polls

\* C14: connected_devices of a port is exactly the set of device names
\* whose per-device successful_polls is at least 1.
C14_ConnectedDevices ==
    LET st == port_stats["A"]
    IN st.connected_devices =
           {n \in DOMAIN st.device_stats : st.device_stats[n].successful_polls >= 1}

\* d1 has answered a poll, d3 has only failed: one is connected, one is not
C14_Witness ==
    /\ call.op = "record_poll"
    /\ port_stats["A"].connected_devices = {"d1"}
    /\ port_stats["A"].device_stats["d3"].failed_polls >= 1

\* C13: the status of a port is "error" if error_count > 10 and
\* successful_polls = 0, or if error_count is above half of
\* successful_polls; otherwise "disconnected" if no device is connected;
\* otherwise "running".  For whole numbers e > s / 2 says e > s \div 2.
C13_StatusRule ==
    (call.op = "get_port_status" /\ call.port_name = "A") =>
        LET e == port_stats["A"].error_count
            s == port_stats["A"].successful_polls
            c == port_stats["A"].connected_devices
        IN call.result =
              IF (e > 10 /\ s = 0) \/ e > s \div 2 THEN "error"
              ELSE IF c = {} THEN "disconnected"
              ELSE "running"

\* a port with errors, yet not above half of its successful polls, runs
C13_Witness ==
    /\ call.op = "get_port_status"
    /\ call.port_name = "A"
    /\ port_stats["A"].error_count = 6
    /\ port_stats["A"].successful_polls = 12
    /\ call.result = "running"

\* C15: every configured register lies entirely within one block, its
\* span counted (one word for int16, uint16 and bool, two for int32, uint32
\* and float); holding registers 10 (int16), 11 (float), 13 (int16) and
\* 20 (uint16) give the blocks (10, 5) and (20, 1).
C15_BlocksCoverSpans ==
    call.op = "group_registers_into_blocks" =>
        /\ \A i \in DOMAIN call.registers :
              \E b \in DOMAIN call.blocks :
                  /\ call.blocks[b][1] <= call.registers[i].address
                  /\ call.registers[i].address + Span(call.registers[i])
                         <= call.blocks[b][1] + call.blocks[b][2]
        /\ call.registers = << Reg("holding", 10, "int16"),
                               Reg("holding", 11, "float"),
                               Reg("holding", 13, "int16"),
                               Reg("holding", 20, "uint16") >>
              => call.blocks = << << 10, 5 >>, << 20, 1 >> >>

\* C16: for registers of distinct addresses no two blocks overlap or are
\* adjacent (each block starts above start + count of the block before
\* it), and the block counts add up to no more than the register spans.
C16_BlocksApart ==
    (call.op = "group_registers_into_blocks"
        /\ DistinctAddresses(call.registers)) =>
        /\ \A b \in DOMAIN call.blocks :
              b > 1 => call.blocks[b][1]
                          > call.blocks[b - 1][1] + call.blocks[b - 1][2]
        /\ SumSeq([b \in DOMAIN call.blocks |-> call.blocks[b][2]])
              <= SumSeq([i \in DOMAIN call.registers |-> Span(call.registers[i])])

\* registers 11, 20 and 10, declared out of order: a run of two and a gap
C16_Witness ==
    /\ call.op = "group_registers_into_blocks"
    /\ call.registers = << Reg("holding", 11, "uint16"),
                           Reg("holding", 20, "uint16"),
                           Reg("holding", 10, "int16") >>
    /\ call.blocks = << << 10, 2 >>, << 20, 1 >> >>

\* C17: no read asks for more than 125 registers (holding, input) or more
\* than 2000 bits (coil, discrete); a longer run of consecutive registers
\* is split into several reads.
C17_ReadSizeLimit ==
    call.op = "poll_device" =>
        \A i \in DOMAIN call.reads :
            call.reads[i].count <=
                IF call.reads[i].fn \in {"read_holding_registers",
                                         "read_input_registers"}
                THEN 125 ELSE 2000

\* C18: with scale 1 and offset 0, a word decoded as int16 is the two's
\* complement value of the word (big) or of the byte-swapped word (little),
\* 0x00FF little giving -256; decoded as uint16 it is the word,
\* respectively the byte-swapped word, in 0..65535.
C18_Decode16 ==
    /\ Decoded("convert_value", "int16") =>
          LET bits == Pattern16(call.args.registers[1], call.args.byteorder)
          IN /\ call.value.v \in -32768..32767
             /\ (call.value.v - bits) % 65536 = 0
             /\ (call.args.registers[1] = 255 /\ call.args.byteorder = "little")
                   => call.value.v = -256
    /\ Decoded("convert_value", "uint16") =>
          /\ call.value.v = Pattern16(call.args.registers[1], call.args.byteorder)
          /\ call.value.v \in 0..65535

\* 0x00FF read little-endian as int16 is -256
C18_Witness ==
    /\ Decoded("convert_value", "int16")
    /\ call.args.registers = << 255 >>
    /\ call.args.byteorder = "little"
    /\ call.value.v = -256

\* C19: with scale 1 and offset 0, a word pair decoded as uint32 or int32
\* is composed of the words swapped if wordorder is little, the bytes of
\* each word swapped if byteorder is little, the first of them the high
\* half: uint32 is that value in 0..2^32-1, int32 its two's complement
\* reading in -2^31..2^31-1.  The value is hi * 65536 + lo.
C19_Decode32 ==
    LET a == call.args
        high == IF a.wordorder = "little" THEN a.registers[2] ELSE a.registers[1]
        low == IF a.wordorder = "little" THEN a.registers[1] ELSE a.registers[2]
    IN /\ Decoded("convert_from_registers", "uint32") =>
             /\ call.value.hi = Pattern16(high, a.byteorder)
             /\ call.value.lo = Pattern16(low, a.byteorder)
             /\ call.value.hi \in 0..65535
       /\ Decoded("convert_from_registers", "int32") =>
             /\ (call.value.hi - Pattern16(high, a.byteorder)) % 65536 = 0
             /\ call.value.lo = Pattern16(low, a.byteorder)
             /\ call.value.hi \in -32768..32767

\* 0x1234, 0x8000 with the words swapped: 0x80001234 read as int32 is
\* -32768 * 65536 + 0x1234
C19_Witness ==
    /\ Decoded("convert_from_registers", "int32")
    /\ call.args.registers = << 4660, 32768 >>
    /\ call.args.wordorder = "little"
    /\ call.args.byteorder = "big"
    /\ call.value.hi = -32768
    /\ call.value.lo = 4660

\* C20: a register of data type bool decodes to the boolean (raw # 0)
\* whatever the scale and the offset: the value equals that boolean, as
\* Python compares (True == 1, False == 0).
C20_BoolNotScaled ==
    (call.op = "convert_value" /\ call.args.data_type = "bool") =>
        call.value.v = IF call.args.registers[1] # 0 THEN 1 ELSE 0

\* C21: a value of the range of int16, uint16, int32 or uint32, laid out
\* in raw words under any byte and word order and decoded from them under
\* the same orders with scale 1 and offset 0, comes back as it was.
C21_RoundTrip ==
    /\ call.op = "convert_value" /\ "held" \in DOMAIN call
          => call.value.v = call.held.value.v
    /\ call.op = "convert_from_registers" /\ "held" \in DOMAIN call
          => /\ call.value.hi = call.held.value.hi
             /\ call.value.lo = call.held.value.lo

\* -32768 * 65536 + 0x1234 held little-endian with the words swapped
\* comes back from the registers 0x3412, 0x0080
C21_Witness ==
    /\ call.op = "convert_from_registers"
    /\ "held" \in DOMAIN call
    /\ call.held.data_type = "int32"
    /\ call.held.value = Wide(-32768, 4660)
    /\ call.held.byteorder = "little"
    /\ call.held.wordorder = "little"
    /\ call.registers = << 13330, 128 >>
    /\ call.value.hi = -32768
    /\ call.value.lo = 4660

\* C22: at both entry points of the decoder, a request for int32, uint32
\* or float with fewer than two words, and a request with an unknown data
\* type, ends in an error and yields no value.
C22_DecoderRejects ==
    (/\ call.op \in {"convert_value", "convert_from_registers"}
     /\ \/ call.args.data_type \in UnknownTypes
        \/ call.args.data_type \in Types32 /\ Len(call.args.registers) < 2)
        => call.value = ValueError

\* C25: in every reachable state the live write buffer holds at most
\* buffer_size samples, however many runners append
C25_BufferBounded ==
    Len(data_buffer) <= buffer_size

\* the buffer is full: the runner that filled it is in its size-triggered
\* flush while another runner has a sample to append
C25_Witness ==
    /\ Len(data_buffer) = buffer_size
    /\ \E p, q \in Ports :
          /\ p # q
          /\ runner[p].pc = "flush_wait"
          /\ runner[q].pc = "lock_wait"

\* C30: a write_register request whose register kind is input or discrete
\* returns failure with no write issued on the transport; a write is in
\* flight on a transport only for a request of kind holding or coil
C30_ReadOnlyKinds ==
    /\ (call.op = "write_register" /\ call.register_type \in {"input", "discrete"})
           => (writer.state = "idle" /\ writer.result = "false")
    /\ writer.state = "inflight"
           => (call.op = "write_register" /\ call.register_type \in {"holding", "coil"})

\* a write to an input register of a configured device of a connected port
\* has returned failure
C30_Witness ==
    /\ call.op = "write_register"
    /\ call.register_type \in {"input", "discrete"}
    /\ call.port_name \in port_clients
    /\ HasDevice(call.port_name, call.device_name)
    /\ writer = [state |-> "idle", port |-> "", result |-> "false"]

\* C27: while the engine is running, a sample in the buffer is eventually
\* handed to persistence (the buffer is emptied by a flush)
C27_BufferedIsHanded ==
    (running /\ data_buffer # << >>) ~> (data_buffer = << >> \/ ~running)

RECURSIVE Flat(_)
Flat(snapshots) ==
    IF snapshots = << >> THEN << >>
    ELSE Head(snapshots) \o Flat(Tail(snapshots))

\* C23: of two samples of one device, the one captured first is never
\* handed to a flush snapshot after the other: it is in an earlier snapshot
\* or precedes it in the same snapshot, and a sample still in the buffer
\* follows every sample of its device handed before
C23_HandedInCaptureOrder ==
    LET seen == Flat(handed) \o Ids(data_buffer)
    IN \A i, j \in DOMAIN seen :
          (/\ seen[i][1] = seen[j][1]
           /\ seen[i][2] = seen[j][2]
           /\ seen[i][3] < seen[j][3]) => i < j

\* two samples of one device were handed: in two snapshots, and in one
C23_Witness ==
    \/ /\ Len(handed) >= 2
       /\ \E k \in DOMAIN handed[1], l \in DOMAIN handed[2] :
             /\ handed[1][k][1] = handed[2][l][1]
             /\ handed[1][k][2] = handed[2][l][2]
       /\ stopper.pc = "none"
    \/ /\ Len(handed) = 1
       /\ Len(handed[1]) = 2
       /\ handed[1][1][2] = handed[1][2][2]
       /\ stopper.pc = "returned"

\* C24: a snapshot takes the whole live buffer and empties it in the same
\* step; the buffer otherwise only grows, by one sample that was never in
\* it nor handed before: no sample is in two snapshots, none comes back
C24_AtMostOnce ==
    [][/\ handed' # handed
          => (handed' = Append(handed, Ids(data_buffer)) /\ data_buffer' = << >>)
       /\ data_buffer' # data_buffer
          => \/ handed' = Append(handed, Ids(data_buffer)) /\ data_buffer' = << >>
             \/ /\ handed' = handed
                /\ Len(data_buffer') = Len(data_buffer) + 1
                /\ SubSeq(data_buffer', 1, Len(data_buffer)) = data_buffer
                /\ \A x \in Range(Flat(handed)) \cup Range(Ids(data_buffer)) :
                      x # SampleId(data_buffer'[Len(data_buffer')])
      ]_vars

\* the flush task handed a sample, a later sample was appended and the
\* final flush of stop() handed it
C24_Witness ==
    /\ Len(handed) >= 2
    /\ handed[1] # << >>
    /\ stopper.pc = "saving"
    /\ stopper.buffer_to_save # << >>

\* C26: the final flush of stop() starts only after every runner has
\* stopped; once stop() has returned, and when the database is closed, the
\* live buffer is empty, and nothing ever leaves the buffer but into a
\* snapshot handed to persistence
C26_FinalFlush ==
    [][/\ stopper'.pc \in {"close", "lock_wait", "saving", "returned", "closed"}
          => \A p \in Ports : runner'[p].pc \in {"none", "done", "cancelled"}
       /\ stopper'.pc \in {"returned", "closed"} => data_buffer' = << >>
       /\ stopper'.pc = "closed" => stopper.pc \in {"returned", "closed"}
       /\ Len(data_buffer') < Len(data_buffer)
          => handed' = Append(handed, Ids(data_buffer))
      ]_vars

\* the database is closed after a stop() that cancelled a polling runner
\* and whose final flush handed samples
C26_Witness ==
    /\ stopper.pc = "closed"
    /\ stopper.buffer_to_save # << >>
    /\ \E p \in Ports : runner[p].pc = "done" /\ obs[p].polls > 0

\* C28: a runner that has terminated, by cancellation or by using up its
\* retries, has closed the port's transport: the port has no registered
\* client
C28_ExitClosesClient ==
    \A p \in Ports :
        runner[p].pc \in {"done", "cancelled"} => p \notin port_clients

\* C31: a write_register that names no port, or a device that is none of
\* the named port, returns failure, puts no write in flight and leaves the
\* statistics, the buffer and the clients as they are; get_port_status of
\* a name that is no port returns the error result "unknown" likewise
C31_UnknownTarget ==
    [][/\ (/\ call' # call
           /\ call'.op = "write_register"
           /\ \/ call'.port_name \notin Ports
              \/ ~HasDevice(call'.port_name, call'.device_name))
          => /\ writer' = [state |-> "idle", port |-> "", result |-> "false"]
             /\ UNCHANGED << port_stats, data_buffer, port_clients >>
       /\ (/\ call' # call
           /\ call'.op = "get_port_status"
           /\ call'.port_name \notin Ports)
          => /\ call'.result = "unknown"
             /\ UNCHANGED << port_stats, data_buffer, port_clients, writer >>
      ]_vars

\* a write of a holding register of a device port A does not have, with
\* port A connected and polled, has returned failure
C31_Witness ==
    /\ call.op = "write_register"
    /\ call.port_name = "A" /\ call.device_name = "zz"
    /\ call.register_type = "holding"
    /\ "A" \in port_clients
    /\ port_stats["A"].total_polls > 0
    /\ writer = [state |-> "idle", port |-> "", result |-> "false"]

\* C38: the statistics of a port change only in a step of that port's
\* runner, which leaves the statistics of every other port alone; a call of
\* get_port_status, get_all_ports_status or write_register, and the return
\* of a write, change no statistics and no buffer content
C38_StatsFrame ==
    [][/\ \A p \in Ports :
             port_stats'[p] # port_stats[p]
                => /\ runner'[p] # runner[p]
                   /\ \A q \in Ports \ {p} : port_stats'[q] = port_stats[q]
       /\ (call' # call \/ writer' # writer)
             => (port_stats' = port_stats /\ data_buffer' = data_buffer)
      ]_vars

\* port A was polled and counted, port B was not, and the three calls of
\* the control plane were made
C38_Witness ==
    /\ port_stats["A"].total_polls > 0
    /\ port_stats["B"].total_polls = 0
    /\ runner["B"].pc = "read"
    /\ call.op = "get_all_ports_status"
    /\ call.result["A"] = "running"
    /\ writer.result = "true"

\* the websocket is in neither index and has no message queue
Unregistered(websocket) ==
    /\ websocket \notin DOMAIN wsm.websocket_subscriptions
    /\ websocket \notin DOMAIN wsm.message_queues
    /\ \A d \in DOMAIN wsm.device_subscriptions :
           websocket \notin wsm.device_subscriptions[d]

\* C40: after any sequence of subscribe, unsubscribe, unregister_websocket
\* and broadcast calls a websocket is in device_subscriptions[d] exactly when
\* d is in websocket_subscriptions[websocket]; and right after
\* unregister_websocket(ws), called directly or by a broadcast that found ws
\* closed, ws is in neither index and has no message queue.
C40_IndexesAgree ==
    /\ \A d \in DOMAIN wsm.device_subscriptions :
           \A w \in wsm.device_subscriptions[d] :
               /\ w \in DOMAIN wsm.websocket_subscriptions
               /\ d \in wsm.websocket_subscriptions[w]
    /\ \A w \in DOMAIN wsm.websocket_subscriptions :
           \A d \in wsm.websocket_subscriptions[w] :
               /\ d \in DOMAIN wsm.device_subscriptions
               /\ w \in wsm.device_subscriptions[d]
    /\ call.op = "unregister_websocket" => Unregistered(call.websocket)
    /\ call.op = "broadcast_device_data" =>
           \A w \in call.dead : Unregistered(w)

\* a websocket subscribed to both devices has just been unsubscribed from
\* one of them while another websocket is still subscribed to it
C40_Witness ==
    /\ call.op = "unsubscribe"
    /\ call.websocket \in DOMAIN wsm.websocket_subscriptions
    /\ call.device_name \in DOMAIN wsm.device_subscriptions
    /\ call.device_name \notin wsm.websocket_subscriptions[call.websocket]

\* C32: every Sample a port runner has handed to the write buffer, once the
\* runner is past its notification (it sleeps between two devices), has been
\* published: broadcast_device_data was called with it.
C32_Published ==
    \A p \in Ports :
        (runner[p].pc = "gap" /\ runner[p].device_data # None)
            => SampleId(runner[p].device_data) \in wsm.broadcasts

\* C33: after start() every enabled port has its poll_port task (one runner
\* per port) and no disabled port has one; a disabled port is never
\* connected to (no attempt, no client) and never polled.
C33_RunnersOfEnabledPorts ==
    \A p \in Ports :
        /\ (running /\ PortConfigs[p].enabled) => runner[p].pc # "none"
        /\ ~PortConfigs[p].enabled =>
               /\ runner[p].pc = "none"
               /\ p \notin port_clients
               /\ obs[p].attempts = 0
               /\ ~obs[p].ever_connected
               /\ obs[p].polls = 0
               /\ port_stats[p].total_polls = 0

\* started, both enabled ports connected and polled, the disabled one idle
C33_Witness ==
    /\ running
    /\ \A p \in Ports : PortConfigs[p].enabled => (p \in port_clients /\ obs[p].polls > 0)
    /\ \E p \in Ports : ~PortConfigs[p].enabled /\ runner[p].pc = "none"

\* C35: Error is terminal: a runner that has left poll_port with its retries
\* used up takes no further step, so it makes no further connection attempt
\* and polls no further device; the async_retry wrapper does not re-run it.
\* poll_port is entered by the task start() creates and by nothing else.
C35_ErrorIsTerminal ==
    [][\A p \in Ports :
          /\ RunnerState(p) = "Error" =>
                 /\ runner'[p] = runner[p]
                 /\ obs'[p] = obs[p]
                 /\ p \notin port_clients'
          /\ (runner'[p].pc = "start" /\ runner[p].pc # "start") =>
                 runner[p].pc = "none"]_vars

\* a port that had been connected is in Error while another port has a
\* client and has polled
C35_Witness ==
    \E p, q \in Ports :
        /\ RunnerState(p) = "Error"
        /\ obs[p].ever_connected
        /\ q \in port_clients
        /\ obs[q].polls > 0

\* C34: the retry counter of a port is incremented only by a failed
\* connection attempt, and only a failed connection attempt moves a runner
\* to Error (retries used up): no other error of the cycle does either.
\* A connection attempt has failed in a step that leaves the connect call
\* without resetting the count of attempts.
C34_OnlyConnectFailuresCount ==
    [][\A p \in DOMAIN runner :
          LET connect_failed == runner[p].pc = "connect" /\ obs'[p].attempts > 0
          IN /\ runner'[p].retry_count > runner[p].retry_count => connect_failed
             /\ (/\ runner[p].pc # "done"
                 /\ runner'[p].pc = "done"
                 /\ runner'[p].retry_count >= PortConfigs[p].max_retries)
                    => connect_failed]_vars

\* the smallest poll_interval of the enabled devices (there is one)
MinEnabledInterval(devices) ==
    LET en == {j \in DOMAIN devices : devices[j].enabled}
    IN devices[CHOOSE j \in en :
                  \A x \in en : devices[j].poll_interval <= devices[x].poll_interval
              ].poll_interval

\* C37: computing the delay after a cycle never fails, a port whose devices
\* are all disabled included, and the delay is max(0, minInterval -
\* cycleTime), cycleTime being the time the cycle has taken and minInterval
\* the smallest poll_interval of the enabled devices.
C37_DelayIsIntervalLessElapsed ==
    call.op = "adjust_polling_interval" =>
        /\ call.result.ended = "return"
        /\ (\E j \in DOMAIN call.devices : call.devices[j].enabled) =>
               call.result.delay =
                   IF MinEnabledInterval(call.devices) > call.elapsed
                   THEN MinEnabledInterval(call.devices) - call.elapsed
                   ELSE 0

\* C36: when every block read of a device poll succeeds, the Sample holds
\* an entry for every configured register of the device, 16-bit and 32-bit
\* alike, under the key of its kind and address.
C36_SampleHasEveryRegister ==
    call.op = "poll_device" =>
        /\ call.device_data # None
        /\ \A i \in DOMAIN call.registers :
               << call.registers[i].type, call.registers[i].address >>
                   \in call.device_data.registers

\* C39: write_register fails without a transport call when the named port has
\* no registered client, and a transport write is issued only for a port
\* with a client, a device of that port and the kind holding or coil; a
\* port has no registered client, so that no write is issued on it, before
\* its runner's first successful connect, when it is disabled, and after its
\* runner has exited (retries exhausted or stopped).
C39_WriteNeedsLiveClient ==
    [][(writer.state = "idle" /\ writer'.state # writer.state) =>
          LET p == writer'.port
          IN /\ p \in port_clients
             /\ obs[p].ever_connected
             /\ PortConfigs[p].enabled
             /\ runner[p].pc \notin {"none", "done", "cancelled"}]_vars

====
